---- MODULE Spec2Model ----
(***************************************************************************)
(* A model of fonti: font categorisation and selection (fontpm/fonts.py),  *)
(* the install-time manifest update (fonti/installer.py) and the repair    *)
(* pass over the installed manifest (fonti/library.py).                    *)
(***************************************************************************)
EXTENDS Integers, Sequences, FiniteSets, TLC

\* ------------------------------------------------------------------ bounds
\* Longest list of extracted font files handed to categorize_fonts.
MaxFiles == 2
\* Longest list of format priorities handed to select_fonts.
MaxPriorities == 2
\* Longest list of release assets handed to select_archive_asset.
MaxAssets == 3

\* ------------------------------------------------------------ sequences
RECURSIVE SeqsUpTo(_, _)
SeqsUpTo(S, n) ==
    IF n = 0 THEN {<<>>}
    ELSE LET shorter == SeqsUpTo(S, n - 1)
         IN  shorter \cup {Append(s, x) : s \in {t \in shorter : Len(t) = n - 1}, x \in S}

Range(s) == {s[i] : i \in 1..Len(s)}

\* Number of positions of s holding x.
Count(s, x) == Cardinality({i \in 1..Len(s) : s[i] = x})

\* ------------------------------------------------------------- the fonts
\* The extracted font files of the model: a path, with what the file system
\* and fontTools report about it.  suffix is Path.suffix as written; name is
\* Path.name; parses says whether TTFont(path) succeeds; fvar whether the
\* font has an "fvar" table; os2 whether font["OS/2"] can be read; weight
\* and italic are usWeightClass and bit 0 of fsSelection.
FontTable ==
    [p \in {"x/a.ttf", "x/B.TTF", "x/c.otf", "x/d.woff2", "x/e.woff", "y/g.Otf"} |->
        CASE p = "x/a.ttf"   -> [name |-> "a.ttf", suffix |-> ".ttf", parses |-> TRUE,
                                 fvar |-> FALSE, os2 |-> TRUE, weight |-> 700, italic |-> TRUE]
          [] p = "x/B.TTF"   -> [name |-> "B.TTF", suffix |-> ".TTF", parses |-> TRUE,
                                 fvar |-> TRUE, os2 |-> TRUE, weight |-> 400, italic |-> FALSE]
          [] p = "x/c.otf"   -> [name |-> "c.otf", suffix |-> ".otf", parses |-> TRUE,
                                 fvar |-> TRUE, os2 |-> TRUE, weight |-> 700, italic |-> TRUE]
          [] p = "x/d.woff2" -> [name |-> "d.woff2", suffix |-> ".woff2", parses |-> FALSE,
                                 fvar |-> TRUE, os2 |-> TRUE, weight |-> 700, italic |-> TRUE]
          [] p = "x/e.woff"  -> [name |-> "e.woff", suffix |-> ".woff", parses |-> TRUE,
                                 fvar |-> TRUE, os2 |-> FALSE, weight |-> 700, italic |-> TRUE]
          [] p = "y/g.Otf"   -> [name |-> "g.Otf", suffix |-> ".Otf", parses |-> TRUE,
                                 fvar |-> FALSE, os2 |-> FALSE, weight |-> 700, italic |-> TRUE]]

FontPaths == DOMAIN FontTable

\* str.lower() on the suffixes and the repo keys that occur.
Lower(s) ==
    CASE s \in {".ttf", ".TTF", ".Ttf"}       -> ".ttf"
      [] s \in {"inter", "Inter"}            -> "inter"
      [] s \in {".otf", ".OTF", ".Otf"}       -> ".otf"
      [] s \in {".woff", ".WOFF", ".Woff"}    -> ".woff"
      [] s \in {".woff2", ".WOFF2", ".Woff2"} -> ".woff2"
      [] OTHER -> s

\* is_variable_font: "fvar" in TTFont(path); raises when the font does not parse.
is_variable_font(p) ==
    IF FontTable[p].parses THEN IF FontTable[p].fvar THEN "true" ELSE "false"
    ELSE "raise"

\* Mutant: the weight class without the default of the except branch.
get_font_weight_nodefault(p) == FontTable[p].weight

\* get_font_weight: usWeightClass, 400 on any exception.
get_font_weight(p) ==
    IF FontTable[p].parses /\ FontTable[p].os2 THEN FontTable[p].weight ELSE 400

\* get_font_italic: fsSelection & 1, False on any exception.
get_font_italic(p) ==
    IF FontTable[p].parses /\ FontTable[p].os2 THEN FontTable[p].italic ELSE FALSE

VALID_FORMATS ==
    <<"variable-ttf", "otf", "static-ttf", "variable-woff2", "variable-woff",
      "static-woff2", "static-woff">>

FormatLabels == Range(VALID_FORMATS)
VariableLabels == {"variable-ttf", "variable-woff", "variable-woff2"}
StaticLabels == FormatLabels \ VariableLabels

\* Mutant: the suffix compared as written, without lower().
BySuffixCaseSensitive(font_files, ext) ==
    LET Test(f) == FontTable[f].suffix = ext
    IN  SelectSeq(font_files, Test)

\* The files of a list with the given lower-cased suffix, in list order.
BySuffix(font_files, ext) ==
    LET Test(f) == Lower(FontTable[f].suffix) = ext
    IN  SelectSeq(font_files, Test)

\* The try/except loop of categorize_fonts over one extension group.
VariableOf(files) ==
    LET Test(f) == is_variable_font(f) = "true"
    IN  SelectSeq(files, Test)

\* Mutant: a file whose inspection raises is dropped.
StaticOfNoExcept(files) ==
    LET Test(f) == is_variable_font(f) = "false"
    IN  SelectSeq(files, Test)

StaticOf(files) ==
    LET Test(f) == is_variable_font(f) \in {"false", "raise"}
    IN  SelectSeq(files, Test)

\* categorize_fonts: the seven buckets, keyed by format label.
categorize_fonts(font_files) ==
    LET ttf_files   == BySuffix(font_files, ".ttf")
        otf_files   == BySuffix(font_files, ".otf")
        woff_files  == BySuffix(font_files, ".woff")
        woff2_files == BySuffix(font_files, ".woff2")
    IN  [l \in FormatLabels |->
            CASE l = "variable-ttf"   -> VariableOf(ttf_files)
              [] l = "static-ttf"     -> StaticOf(ttf_files)
              [] l = "otf"            -> otf_files
              [] l = "variable-woff"  -> VariableOf(woff_files)
              [] l = "static-woff"    -> StaticOf(woff_files)
              [] l = "variable-woff2" -> VariableOf(woff2_files)
              [] l = "static-woff2"   -> StaticOf(woff2_files)]

\* The two list comprehensions of a static branch of select_fonts.
FullStyles == <<"roman", "italic">>

WeightFilter(candidates, weights) ==
    LET Test(f) == get_font_weight(f) \in weights
    IN  IF weights # {} THEN SelectSeq(candidates, Test) ELSE candidates

StyleFilter(candidates, styles) ==
    LET Test(f) == \/ (get_font_italic(f) /\ "italic" \in Range(styles))
                   \/ (~get_font_italic(f) /\ "roman" \in Range(styles))
    IN  IF styles # FullStyles THEN SelectSeq(candidates, Test) ELSE candidates

StaticCandidates(bucket, weights, styles) ==
    StyleFilter(WeightFilter(bucket, weights), styles)

\* Mutant: the warning only when both filters are given.
VariableWarningBoth(weights, styles) == weights # {} /\ styles # FullStyles

\* The warning condition of a variable branch.
VariableWarning(weights, styles) == weights # {} \/ styles # FullStyles

\* select_fonts: the loop over priorities from position i on.
RECURSIVE SelectFrom(_, _, _, _, _)
SelectFrom(cat, priorities, weights, styles, i) ==
    IF i > Len(priorities)
    THEN [fonts |-> <<>>, pri |-> "", warned |-> FALSE]
    ELSE LET pri == priorities[i]
         IN  IF pri \in VariableLabels /\ cat[pri] # <<>>
             THEN [fonts |-> cat[pri], pri |-> pri,
                   warned |-> VariableWarning(weights, styles)]
             ELSE IF /\ pri \in StaticLabels
                     /\ cat[pri] # <<>>
                     /\ StaticCandidates(cat[pri], weights, styles) # <<>>
             THEN [fonts |-> StaticCandidates(cat[pri], weights, styles),
                   pri |-> pri, warned |-> FALSE]
             ELSE SelectFrom(cat, priorities, weights, styles, i + 1)

\* Mutant: the loop without its break, so that the last match wins.
RECURSIVE SelectLast(_, _, _, _, _)
SelectLast(cat, priorities, weights, styles, i) ==
    IF i < 1
    THEN [fonts |-> <<>>, pri |-> "", warned |-> FALSE]
    ELSE LET one == SelectFrom(cat, <<priorities[i]>>, weights, styles, 1)
         IN  IF one.pri # "" THEN one
             ELSE SelectLast(cat, priorities, weights, styles, i - 1)

select_fonts_last_match(cat, priorities, weights, styles) ==
    SelectLast(cat, priorities, weights, styles, Len(priorities))

select_fonts(cat, priorities, weights, styles) ==
    SelectFrom(cat, priorities, weights, styles, 1)

\* ----------------------------------------------------------------- state
VARIABLES
    pc,                 \* which step ran last
    font_files,         \* categorize_fonts: its argument
    categorized_fonts,  \* categorize_fonts: its result
    priorities,         \* select_fonts: arguments
    weights,
    styles,
    selected_fonts,     \* select_fonts: results
    selected_pri,
    warned,             \* whether select_fonts printed the variable-font warning
    installed_file,     \* INSTALLED_FILE: the persisted manifest
    dest,               \* the destination directory: file name -> content
    last,               \* the last command: its arguments and what it did
    actions,            \* fix_fonts: the fixups it listed, in order
    fix,                \* fix_fonts: its mode, the confirmations and its count
    writable,           \* whether INSTALLED_FILE can be opened for writing
    cache,              \* the archive cache: the keys it holds
    extracted           \* the archive members the last install wrote to disk

fontVars == <<font_files, categorized_fonts, priorities, weights, styles,
              selected_fonts, selected_pri, warned>>

diskVars == <<installed_file, dest>>

fixVars == <<actions, fix>>

vars == <<pc, fontVars, diskVars, last, fixVars, writable, cache, extracted>>

\* The priorities a caller may pass: format labels, and a token that is none.
PriorityTokens == FormatLabels \cup {"ttf"}
WeightChoices == {{}, {400}, {700}}
StyleChoices == {<<"roman", "italic">>, <<"italic", "roman">>, <<"roman">>, <<"italic">>, <<>>}

NoFonts ==
    /\ font_files = <<>>
    /\ categorized_fonts = [l \in FormatLabels |-> <<>>]
    /\ priorities = <<>>
    /\ weights = {}
    /\ styles = FullStyles
    /\ selected_fonts = <<>>
    /\ selected_pri = ""
    /\ warned = FALSE

\* ------------------------------------------------- manifest and disk
\* A Python dict, in insertion order: a sequence of [k, v] without two
\* entries of one key.
DictKeys(d) == [i \in 1..Len(d) |-> d[i].k]
DictHas(d, key) == \E i \in 1..Len(d) : d[i].k = key
DictGet(d, key) == d[CHOOSE i \in 1..Len(d) : d[i].k = key].v

\* d[key] = value: in place when the key is there, at the end when not.
DictSet(d, key, value) ==
    IF DictHas(d, key)
    THEN [i \in 1..Len(d) |-> IF d[i].k = key THEN [k |-> key, v |-> value] ELSE d[i]]
    ELSE Append(d, [k |-> key, v |-> value])

\* del d[key]
DictDel(d, key) ==
    LET Test(e) == e.k # key
    IN  SelectSeq(d, Test)

\* The file names of the destination directory, and an absent file.
FileNames == {FontTable[p].name : p \in FontPaths}
Absent == "absent"
EmptyDir == [n \in FileNames |-> Absent]

\* hashlib.sha256(bytes).hexdigest(): one digest per content.
Sha256(content) == <<"sha256", content>>

\* The suffix of a file name as written (what str.endswith compares).
NameSuffix(n) == FontTable[CHOOSE p \in FontPaths : FontTable[p].name = n].suffix

NoCommand ==
    [op |-> "none", repo_key |-> "", owner |-> "", repo_name |-> "", version |-> "",
     force |-> FALSE, local |-> FALSE, outcome |-> "",
     moved |-> {}, hashed |-> {}, recorded |-> {}, deleted |-> {},
     args |-> <<>>, hash_fails |-> {}, unlink_fails |-> {},
     checked |-> <<>>, latest |-> <<>>, scheduled |-> <<>>, updated |-> <<>>,
     reported |-> {}, calls |-> <<>>, skipped |-> {}, fetched |-> FALSE,
     chosen |-> <<>>]

NoDisk ==
    /\ installed_file = <<>>
    /\ dest = EmptyDir
    /\ last = NoCommand

NoArchive ==
    /\ cache = {}
    /\ extracted = <<>>

NoFix == [granular |-> FALSE, confirmed |-> {}, fixed_count |-> 0]

NoRepair ==
    /\ actions = <<>>
    /\ fix = NoFix

InitFonts ==
    /\ pc = "start"
    /\ NoFonts
    /\ NoDisk
    /\ NoRepair
    /\ writable = TRUE
    /\ NoArchive

\* categorize_fonts(font_files)
CategorizeFonts ==
    /\ pc = "start"
    /\ \E files \in SeqsUpTo(FontPaths, MaxFiles) :
        /\ font_files' = files
        /\ categorized_fonts' = categorize_fonts(files)
    /\ pc' = "categorized"
    /\ priorities' = <<>>
    /\ weights' = {}
    /\ styles' = FullStyles
    /\ selected_fonts' = <<>>
    /\ selected_pri' = ""
    /\ warned' = FALSE
    /\ UNCHANGED <<diskVars, last, fixVars, writable, cache, extracted>>

\* select_fonts(categorized_fonts, priorities, weights, styles)
SelectFonts ==
    /\ pc = "categorized"
    /\ \E pris \in SeqsUpTo(PriorityTokens, MaxPriorities),
          ws \in WeightChoices, sts \in StyleChoices :
        LET r == select_fonts(categorized_fonts, pris, ws, sts)
        IN  /\ priorities' = pris
            /\ weights' = ws
            /\ styles' = sts
            /\ selected_fonts' = r.fonts
            /\ selected_pri' = r.pri
            /\ warned' = r.warned
    /\ pc' = "selected"
    /\ UNCHANGED <<font_files, categorized_fonts, diskVars, last, fixVars, writable, cache, extracted>>

NextFonts == CategorizeFonts \/ SelectFonts

SpecFonts == InitFonts /\ [][NextFonts]_vars

\* ------------------------------------------------- claims on the fonts
\* What the claims call weight(f) and italic(f): the font's own values, and
\* 400 and not italic when the font cannot be inspected.
Inspectable(f) == FontTable[f].parses /\ FontTable[f].os2
ClaimWeight(f) == IF Inspectable(f) THEN FontTable[f].weight ELSE 400
ClaimItalic(f) == IF Inspectable(f) THEN FontTable[f].italic ELSE FALSE

\* The filter of a static label, as the claims state it.
Keeps(f) ==
    /\ weights = {} \/ ClaimWeight(f) \in weights
    /\ \/ Range(styles) = {"roman", "italic"}
       \/ (ClaimItalic(f) /\ "italic" \in Range(styles))
       \/ (~ClaimItalic(f) /\ "roman" \in Range(styles))

\* A label that select_fonts may stop at.
Qualifies(l) ==
    /\ l \in FormatLabels
    /\ categorized_fonts[l] # <<>>
    /\ l \in StaticLabels => \E f \in Range(categorized_fonts[l]) : Keeps(f)

QualifyingPositions == {i \in 1..Len(priorities) : Qualifies(priorities[i])}

\* C1: select_fonts returns the label of the first priority that qualifies
\* and files of that label's bucket only; with no qualifying priority it
\* returns the empty list and the empty label.
C1_FirstMatchWins ==
    pc = "selected" =>
        IF QualifyingPositions = {}
        THEN selected_fonts = <<>> /\ selected_pri = ""
        ELSE LET first == CHOOSE i \in QualifyingPositions :
                              \A j \in QualifyingPositions : i <= j
             IN  /\ selected_pri = priorities[first]
                 /\ selected_fonts # <<>>
                 /\ Range(selected_fonts) \subseteq Range(categorized_fonts[priorities[first]])
                 /\ \A l \in FormatLabels \ {priorities[first]} :
                        Range(selected_fonts) \cap Range(categorized_fonts[l]) = {}

\* C1 witness: the first priority has files, all filtered away, and the
\* second priority is the one selected.
C1_Witness ==
    /\ pc = "selected"
    /\ Len(priorities) = 2
    /\ priorities[1] \in StaticLabels
    /\ categorized_fonts[priorities[1]] # <<>>
    /\ priorities[2] # priorities[1]
    /\ selected_pri = priorities[2]
    /\ selected_fonts # <<>>

\* C2: a selected static label returns exactly the files of its bucket, in
\* bucket order, that pass the weight and the style filter.
C2_StaticFilter ==
    (pc = "selected" /\ selected_pri \in StaticLabels) =>
        selected_fonts = SelectSeq(categorized_fonts[selected_pri], Keeps)

\* C2 witness: a static selection that kept a font which cannot be
\* inspected (weight 400 by default) and dropped another of the bucket.
C2_Witness ==
    /\ pc = "selected"
    /\ selected_pri \in StaticLabels
    /\ weights = {400}
    /\ Len(selected_fonts) < Len(categorized_fonts[selected_pri])
    /\ \E f \in Range(selected_fonts) : ~Inspectable(f) /\ FontTable[f].weight # 400

\* C3: a selected variable label returns its whole bucket, and the warning
\* is printed whenever weights is non-empty or styles is a strict subset of
\* {roman, italic}.
C3_VariableBypass ==
    (pc = "selected" /\ selected_pri \in VariableLabels) =>
        /\ selected_fonts = categorized_fonts[selected_pri]
        /\ (weights # {} \/ (Range(styles) \subseteq {"roman", "italic"}
                             /\ Range(styles) # {"roman", "italic"})) => warned

\* C3 witness: a variable selection under a style filter alone.
C3_Witness ==
    /\ pc = "selected"
    /\ selected_pri \in VariableLabels
    /\ weights = {}
    /\ styles = <<"italic">>
    /\ warned
    /\ \E f \in Range(selected_fonts) : ~get_font_italic(f)

\* Occurrences of f over the seven buckets together.
BucketCount(f) ==
    Cardinality({x \in UNION {{<<l, i>> : i \in 1..Len(categorized_fonts[l])} :
                              l \in FormatLabels} :
                    categorized_fonts[x[1]][x[2]] = f})

\* C4: categorize_fonts is a partition: every input path is in exactly one
\* bucket, as many times as in the input, and nothing else is in a bucket.
C4_Partition ==
    pc = "categorized" =>
        \A f \in FontPaths :
            /\ BucketCount(f) = Count(font_files, f)
            /\ Cardinality({l \in FormatLabels : f \in Range(categorized_fonts[l])})
                   = IF f \in Range(font_files) THEN 1 ELSE 0

\* C4 witness: a font whose inspection fails, twice in the input.
C4_Witness ==
    /\ pc = "categorized"
    /\ \E f \in FontPaths :
        /\ ~FontTable[f].parses
        /\ Count(font_files, f) = 2
        /\ BucketCount(f) = 2

\* The bucket the claims assign to a file.
ClaimBucket(f) ==
    LET ext == Lower(FontTable[f].suffix)
        var == FontTable[f].parses /\ FontTable[f].fvar
    IN  CASE ext = ".otf"   -> "otf"
          [] ext = ".ttf"   -> IF var THEN "variable-ttf" ELSE "static-ttf"
          [] ext = ".woff"  -> IF var THEN "variable-woff" ELSE "static-woff"
          [] ext = ".woff2" -> IF var THEN "variable-woff2" ELSE "static-woff2"

\* C5: an .otf file is in the otf bucket, variable or not; a .ttf, .woff or
\* .woff2 file is in the variable bucket of its extension iff it is found
\* variable, and in the static one when it is not or the inspection raises.
C5_Routing ==
    pc = "categorized" =>
        \A f \in Range(font_files) : f \in Range(categorized_fonts[ClaimBucket(f)])

\* C5 witness: a variable .otf and an unparsable .woff2 in one input.
C5_Witness ==
    /\ pc = "categorized"
    /\ \E f \in Range(categorized_fonts["otf"]) : FontTable[f].fvar
    /\ \E f \in Range(categorized_fonts["static-woff2"]) : ~FontTable[f].parses

\* -------------------------------------------------------------- install
\* load_installed_data: the keys lower-cased, a later entry replacing an
\* earlier one of the same lower-cased key.
RECURSIVE NormalizeFrom(_, _, _)
NormalizeFrom(file, i, acc) ==
    IF i > Len(file) THEN acc
    ELSE NormalizeFrom(file, i + 1, DictSet(acc, Lower(file[i].k), file[i].v))

load_installed_data(file) == NormalizeFrom(file, 1, <<>>)

\* save_installed_data: the file holds what json.dump wrote; when the
\* file cannot be opened the exception is logged and the file is as it was.
save_installed_data(file, data) == IF writable THEN data ELSE file

\* The fonts of selected_fonts that TTFont opens.
ValidFonts(selected) ==
    LET Test(f) == FontTable[f].parses
    IN  SelectSeq(selected, Test)

NamesOf(files) == {FontTable[f].name : f \in Range(files)}

\* shutil.move of each valid font to dest_dir / name, in turn.
RECURSIVE MoveAll(_, _, _)
MoveAll(valid, i, dir) ==
    IF i > Len(valid) THEN dir
    ELSE MoveAll(valid, i + 1, [dir EXCEPT ![FontTable[valid[i]].name] = valid[i]])

\* The loop of install_fonts that hashes each moved file and writes its
\* entry; a file of hash_fails raises in read_bytes and gets no entry.
RECURSIVE RecordAll(_, _, _, _, _, _)
RecordAll(valid, i, fonts, dir, proto, hash_fails) ==
    IF i > Len(valid) THEN fonts
    ELSE LET n == FontTable[valid[i]].name
         IN  IF n \in hash_fails
             THEN RecordAll(valid, i + 1, fonts, dir, proto, hash_fails)
             ELSE RecordAll(valid, i + 1,
                            DictSet(fonts, n, [proto EXCEPT !.hash = Sha256(dir[n])]),
                            dir, proto, hash_fails)

\* install_fonts
install_fonts(selected, dir, repo_name, repo_key, owner, version, pri, local, file, hash_fails) ==
    IF selected = <<>>
    THEN [file |-> file, dest |-> dir, moved |-> {}, hashed |-> {}, recorded |-> {},
          deleted |-> {}, outcome |-> "no_fonts"]
    ELSE LET valid == ValidFonts(selected)
             dir2  == MoveAll(valid, 1, dir)
         IN  IF local
             THEN [file |-> file, dest |-> dir2, moved |-> NamesOf(valid), hashed |-> {},
                   recorded |-> {}, deleted |-> {}, outcome |-> "installed"]
             ELSE LET data  == load_installed_data(file)
                      data1 == IF ~DictHas(data, repo_key)
                               THEN DictSet(data, repo_key, <<>>) ELSE data
                      proto == [hash |-> "", type |-> pri, version |-> version,
                                owner |-> owner, repo_name |-> repo_name]
                      fonts == RecordAll(valid, 1, DictGet(data1, repo_key), dir2,
                                         proto, hash_fails)
                  IN  [file |-> save_installed_data(file, DictSet(data1, repo_key, fonts)),
                       dest |-> dir2, moved |-> NamesOf(valid), hashed |-> NamesOf(valid),
                       recorded |-> NamesOf(valid) \ hash_fails, deleted |-> {},
                       outcome |-> "installed"]

WoffLabels == {"static-woff", "static-woff2", "variable-woff", "variable-woff2"}

\* Mutant: the guard looks at the first priority only.
WoffGuardFirstOnly(pris, local, force) ==
    /\ pris # <<>>
    /\ pris[1] \in WoffLabels
    /\ ~local
    /\ ~force

\* The guard against a global WOFF/WOFF2 install.
WoffGuard(pris, local, force) ==
    /\ \E i \in 1..Len(pris) : pris[i] \in WoffLabels
    /\ ~local
    /\ ~force

CurrentVersions(fonts) == {fonts[i].v.version : i \in 1..Len(fonts)}

\* Mutant: the same-version guard never holds.
SkipInstallNever(data, repo_key, version, force) == FALSE

\* The same-version guard: the repo is installed at this one version and the
\* call is not forced.
SkipInstall(data, repo_key, version, force) ==
    /\ DictHas(data, repo_key)
    /\ CurrentVersions(DictGet(data, repo_key)) = {version}
    /\ ~force

\* The old fonts of the repo that the removal loop unlinks.
OldDeleted(data, repo_key, dir, unlink_fails) ==
    {n \in Range(DictKeys(DictGet(data, repo_key))) : dir[n] # Absent /\ n \notin unlink_fails}

\* Mutant: the old files are unlinked and the entry is kept.
ClearRepoKeep(data, repo_key) == data

\* del installed_data[repo_key]
ClearRepo(data, repo_key) == DictDel(data, repo_key)

\* install_single_repo, from the version gate on: the arguments, the version
\* the fetch returned, the selection made, and which unlink and read fail.
InstallFrom(repo_key, owner, repo_name, version, sel, local, force, file, dir, hash_fails, unlink_fails) ==
    LET data == load_installed_data(file)
    IN  IF ~local /\ SkipInstall(data, repo_key, version, force)
        THEN [file |-> file, dest |-> dir, moved |-> {}, hashed |-> {}, recorded |-> {},
              deleted |-> {}, outcome |-> "already_installed"]
        ELSE LET gate  == ~local /\ DictHas(data, repo_key)
                 del   == IF gate THEN OldDeleted(data, repo_key, dir, unlink_fails) ELSE {}
                 dir1  == [n \in FileNames |-> IF n \in del THEN Absent ELSE dir[n]]
                 file1 == IF gate THEN save_installed_data(file, ClearRepo(data, repo_key))
                          ELSE file
             IN  [install_fonts(sel.fonts, dir1, repo_name, repo_key, owner, version,
                                sel.pri, local, file1, hash_fails)
                      EXCEPT !.deleted = del]

\* install_single_repo as one step.  fetch_ok says whether the release could
\* be fetched and extracted.
InstallSingleRepo(repo_key, owner, repo_name, version, files, pris, ws, sts, local, force, fetch_ok, hash_fails, unlink_fails) ==
    LET call == [NoCommand EXCEPT !.op = "install", !.repo_key = repo_key, !.owner = owner,
                                  !.repo_name = repo_name, !.force = force, !.local = local]
    IN  IF WoffGuard(pris, local, force) \/ ~fetch_ok
        THEN /\ last' = [call EXCEPT !.outcome = IF WoffGuard(pris, local, force)
                                                  THEN "woff_guard" ELSE "fetch_failed",
                                      !.fetched = ~WoffGuard(pris, local, force)]
             /\ priorities' = pris
             /\ weights' = ws
             /\ styles' = sts
             /\ font_files' = <<>>
             /\ categorized_fonts' = [l \in FormatLabels |-> <<>>]
             /\ selected_fonts' = <<>>
             /\ selected_pri' = ""
             /\ warned' = FALSE
             /\ UNCHANGED diskVars
        ELSE \E cat \in {categorize_fonts(files)} :
             \E sel \in {select_fonts(cat, pris, ws, sts)} :
             \E r \in {InstallFrom(repo_key, owner, repo_name, version, sel, local, force,
                                  installed_file, dest, hash_fails, unlink_fails)} :
                 /\ last' = [call EXCEPT !.version = version, !.outcome = r.outcome,
                                         !.fetched = TRUE, !.moved = r.moved, !.hashed = r.hashed,
                                         !.recorded = r.recorded, !.deleted = r.deleted]
                 /\ priorities' = pris
                 /\ weights' = ws
                 /\ styles' = sts
                 /\ font_files' = files
                 /\ categorized_fonts' = cat
                 /\ selected_fonts' = sel.fonts
                 /\ selected_pri' = sel.pri
                 /\ warned' = sel.warned
                 /\ installed_file' = r.file
                 /\ dest' = r.dest

\* The repos the commands of the model name: the key the caller passes, and
\* the owner and name it parsed.
InstallRequests ==
    {[repo_key |-> "inter", owner |-> "rsms", repo_name |-> "Inter"],
     [repo_key |-> "Inter", owner |-> "rsms", repo_name |-> "Inter"],
     [repo_key |-> "roboto", owner |-> "google", repo_name |-> "roboto"]}

Versions == {"1.0", "2.0"}

\* The font files of a release, as found in its extracted archive.
ReleaseFiles(repo_name, version) ==
    CASE Lower(repo_name) = "inter" /\ version = "1.0" -> <<"x/a.ttf", "x/B.TTF">>
      [] Lower(repo_name) = "inter" /\ version = "2.0" -> <<"x/c.otf", "y/g.Otf", "x/a.ttf">>
      [] version = "1.0"                               -> <<"x/a.ttf", "x/d.woff2">>
      [] OTHER                                         -> <<"x/d.woff2", "x/e.woff">>

DEFAULT_PRIORITIES == <<"variable-ttf", "otf", "static-ttf">>

InstallPriorities ==
    {DEFAULT_PRIORITIES, <<"static-woff2", "static-ttf">>, <<"static-ttf", "variable-woff">>}

\* The files whose read_bytes (hash) or unlink fails during a command.
IoFailures ==
    {[hash_fails |-> {}, unlink_fails |-> {}],
     [hash_fails |-> {"a.ttf"}, unlink_fails |-> {}],
     [hash_fails |-> {}, unlink_fails |-> {"B.TTF"}]}

InitInstall ==
    /\ pc = "idle"
    /\ NoFonts
    /\ NoDisk
    /\ NoRepair
    /\ writable = TRUE
    /\ NoArchive

\* The install command for one repo, into the default directory.
Install ==
    /\ pc = "idle"
    /\ \E req \in InstallRequests, version \in Versions, pris \in InstallPriorities,
          force \in BOOLEAN, io \in IoFailures :
        InstallSingleRepo(req.repo_key, req.owner, req.repo_name, version,
                          ReleaseFiles(req.repo_name, version), pris, {}, FullStyles,
                          FALSE, force, TRUE, io.hash_fails, io.unlink_fails)
    /\ pc' = "idle"
    /\ UNCHANGED <<fixVars, writable, cache, extracted>>

\* The install command for one repo whose release cannot be fetched.
InstallFetchFails ==
    /\ pc = "idle"
    /\ \E req \in InstallRequests, force \in BOOLEAN :
        InstallSingleRepo(req.repo_key, req.owner, req.repo_name, "1.0", <<>>,
                          DEFAULT_PRIORITIES, {}, FullStyles, FALSE, force, FALSE, {}, {})
    /\ pc' = "idle"
    /\ UNCHANGED <<fixVars, writable, cache, extracted>>

NextInstall == Install \/ InstallFetchFails

SpecInstall == InitInstall /\ [][NextInstall]_vars

\* --------------------------------------------------- claims on install
\* The records of a repo key in the manifest as load_installed_data returns it.
LoadedFonts(file, repo_key) ==
    IF DictHas(load_installed_data(file), repo_key)
    THEN DictGet(load_installed_data(file), repo_key) ELSE <<>>

\* The repo key has records and all of them carry the version.
InstalledAt(file, repo_key, version) ==
    /\ LoadedFonts(file, repo_key) # <<>>
    /\ \A i \in 1..Len(LoadedFonts(file, repo_key)) :
           LoadedFonts(file, repo_key)[i].v.version = version

\* C6: a non-local, unforced install_single_repo of a repo key whose
\* manifest records all carry the version being installed leaves the
\* persisted manifest and the destination directory as they were and hashes
\* no file.
C6_SameVersionIdempotent ==
    [][(/\ last'.op = "install"
        /\ ~last'.local
        /\ ~last'.force
        /\ last'.version # ""
        /\ InstalledAt(installed_file, last'.repo_key, last'.version))
       => (/\ installed_file' = installed_file
           /\ dest' = dest
           /\ last'.hashed = {}
           /\ last'.moved = {}
           /\ last'.deleted = {})]_vars

\* C6 witness: an unforced install that met its own version in the manifest.
C6_Witness ==
    /\ last.op = "install"
    /\ ~last.force
    /\ last.outcome = "already_installed"
    /\ InstalledAt(installed_file, last.repo_key, last.version)
    /\ \E n \in FileNames : dest[n] # Absent

\* The records of an entry are those the last install wrote, and no other.
OnlyThisInstall(fonts) ==
    /\ Range(DictKeys(fonts)) = last.recorded
    /\ \A i \in 1..Len(fonts) :
        /\ fonts[i].v.version = last.version
        /\ fonts[i].v.type = selected_pri
        /\ fonts[i].v.hash = Sha256(dest[fonts[i].k])

\* C7: after a non-local install_single_repo of key K at version V that
\* wrote at least one record, the entry of K (in the file, and as loaded)
\* holds the records of this install only, each of version V and of the
\* selected format.
C7_NoMixedInstall ==
    (/\ last.op = "install"
     /\ ~last.local
     /\ last.outcome = "installed"
     /\ last.recorded # {})
    => /\ DictHas(installed_file, last.repo_key)
       /\ OnlyThisInstall(DictGet(installed_file, last.repo_key))
       /\ OnlyThisInstall(LoadedFonts(installed_file, Lower(last.repo_key)))

\* C7 witness: an install over an entry of another version, one of whose
\* files could not be unlinked.
C7_Witness ==
    /\ last.op = "install"
    /\ last.outcome = "installed"
    /\ last.recorded # {}
    /\ last.version = "2.0"
    /\ last.deleted = {}
    /\ \E n \in FileNames \ last.recorded : dest[n] # Absent

\* C21: a non-local, unforced install_single_repo with a WOFF or WOFF2
\* label anywhere in its priorities returns at the guard: nothing is fetched,
\* the manifest file and the destination directory are as they were, and no
\* file is moved, hashed or deleted.
C21_WoffGuard ==
    [][(/\ last'.op = "install"
        /\ ~last'.local
        /\ ~last'.force
        /\ \E i \in 1..Len(priorities') : priorities'[i] \in WoffLabels)
       => (/\ last'.outcome = "woff_guard"
           /\ ~last'.fetched
           /\ installed_file' = installed_file
           /\ dest' = dest
           /\ last'.moved = {}
           /\ last'.hashed = {}
           /\ last'.deleted = {})]_vars

\* C21 witness: the guard stopped an install whose WOFF label is the second
\* priority, of a repo installed at another version.
C21_Witness ==
    /\ last.op = "install"
    /\ last.outcome = "woff_guard"
    /\ priorities[1] \notin WoffLabels
    /\ DictHas(installed_file, last.repo_key)
    /\ \E n \in FileNames : dest[n] # Absent

\* ------------------------------------------------------------------ fix
\* The number of parts of repo.split("/").
KeyParts(k) ==
    CASE k = "rsms/inter" -> 2
      [] k = "a/b/c"      -> 3
      [] OTHER            -> 1

\* The place of a repo key in sorted(): the order of Python strings.
KeyRank(k) ==
    CASE k = "a/b/c"      -> 1
      [] k = "inter"      -> 2
      [] k = "roboto"     -> 3
      [] k = "rsms/inter" -> 4
      [] OTHER            -> 0

\* parse_repo raises ValueError unless the key splits into two parts.
ParseRepoRaises(k) == KeyParts(k) # 2

\* The invalid-repo check: only a key holding a "/" is parsed.
InvalidRepo(k) == KeyParts(k) > 1 /\ ParseRepoRaises(k)

\* type_to_ext.get(type): "none" for a type the table does not hold.
type_to_ext(t) ==
    CASE t \in {"variable-ttf", "static-ttf"}     -> ".ttf"
      [] t = "otf"                                -> ".otf"
      [] t \in {"variable-woff", "static-woff"}   -> ".woff"
      [] t \in {"variable-woff2", "static-woff2"} -> ".woff2"
      [] OTHER                                    -> "none"

\* Mutant: the extension compared without regard to letter case.
EndsWithAnyCase(n, ext) == Lower(NameSuffix(n)) = ext

\* filename.endswith(ext), for ext one of the four extensions.
EndsWith(n, ext) == NameSuffix(n) = ext

\* The records of the manifest in iteration order, each with its repo.
RECURSIVE RecordsFrom(_, _)
RecordsFrom(data, i) ==
    IF i > Len(data) THEN <<>>
    ELSE [j \in 1..Len(data[i].v) |->
             [repo |-> data[i].k, filename |-> data[i].v[j].k, entry |-> data[i].v[j].v]]
         \o RecordsFrom(data, i + 1)

AllRecords(data) == RecordsFrom(data, 1)

\* The type/extension check of one record.
Mismatch(r) ==
    /\ type_to_ext(r.entry.type) # "none"
    /\ ~EndsWith(r.filename, type_to_ext(r.entry.type))

Fixup(kind, repo, filename, new_hash, reason) ==
    [kind |-> kind, repo |-> repo, filename |-> filename, new_hash |-> new_hash,
     reason |-> reason]

\* "Remove invalid repo" fixups.
InvalidRepoActions(data) ==
    LET Test(k) == InvalidRepo(k)
        bad == SelectSeq(DictKeys(data), Test)
    IN  [i \in 1..Len(bad) |-> Fixup("del_repo", bad[i], "", "", "")]

\* invalid_entries: the mismatching records of the repos not invalid.
InvalidEntries(data) ==
    LET Test(r) == ~InvalidRepo(r.repo) /\ Mismatch(r)
    IN  SelectSeq(AllRecords(data), Test)

InvalidEntryActions(data) ==
    LET bad == InvalidEntries(data)
    IN  [i \in 1..Len(bad) |-> Fixup("del_entry", bad[i].repo, bad[i].filename, "", "")]

\* The records that the duplicate check looks at.
Survivors(data) ==
    LET Test(r) == ~InvalidRepo(r.repo) /\ ~Mismatch(r)
    IN  SelectSeq(AllRecords(data), Test)

\* filename_to_repos[f]: the repos holding f, in iteration order.
ReposOfName(surv, f) ==
    LET Test(r) == r.filename = f
        hits == SelectSeq(surv, Test)
    IN  [i \in 1..Len(hits) |-> hits[i].repo]

\* The keys of filename_to_repos, in insertion order.
RECURSIVE FirstSeen(_, _, _)
FirstSeen(surv, i, acc) ==
    IF i > Len(surv) THEN acc
    ELSE FirstSeen(surv, i + 1,
                   IF surv[i].filename \in Range(acc) THEN acc
                   ELSE Append(acc, surv[i].filename))

\* Mutant: the duplicate fixups name every repo but the last.
LaterRepos_KeepLast(repos) == SubSeq(repos, 1, Len(repos) - 1)

\* repos[1:]
LaterRepos(repos) == Tail(repos)

RECURSIVE DuplicateActionsFrom(_, _, _)
DuplicateActionsFrom(surv, names, i) ==
    IF i > Len(names) THEN <<>>
    ELSE LET repos == ReposOfName(surv, names[i])
             later == LaterRepos(repos)
         IN  (IF Len(repos) > 1
              THEN [j \in 1..Len(later) |-> Fixup("del_duplicate", later[j], names[i], "", "")]
              ELSE <<>>)
             \o DuplicateActionsFrom(surv, names, i + 1)

\* "Remove duplicate" fixups.
DuplicateActions(data) ==
    DuplicateActionsFrom(Survivors(data), FirstSeen(Survivors(data), 1, <<>>), 1)

\* Mutant: the duplicates to be removed are file-checked too.
CheckedWithDuplicates(data) == Survivors(data)

\* The records the file checks look at: surviving, and not a duplicate to
\* be removed.
Checked(data) ==
    LET dups == Range(DuplicateActions(data))
        Test(r) == ~\E a \in dups : a.repo = r.repo /\ a.filename = r.filename
    IN  SelectSeq(Survivors(data), Test)

IsVariableType(t) == t \in {"variable-ttf", "variable-woff", "variable-woff2"}

\* Mutant: a changed hash flags the repo for a reinstall.
FileCheckReinstallOnDrift(r, dir, unreadable) ==
    LET c == dir[r.filename]
    IN  IF c = Absent THEN "missing file(s)"
        ELSE IF ~FontTable[c].parses THEN "invalid font file(s)"
        ELSE IF IsVariableType(r.entry.type) # FontTable[c].fvar
             THEN "variable/static mismatch"
        ELSE IF r.filename \in unreadable THEN "unreadable file(s)"
        ELSE IF Sha256(c) # r.entry.hash THEN "modified file(s)"
        ELSE "ok"

\* The file check of one record: a reinstall reason, "update_hash" or "ok".
\* unreadable holds the files whose read_bytes raises.
FileCheck(r, dir, unreadable) ==
    LET c == dir[r.filename]
    IN  IF c = Absent THEN "missing file(s)"
        ELSE IF ~FontTable[c].parses THEN "invalid font file(s)"
        ELSE IF IsVariableType(r.entry.type) # FontTable[c].fvar
             THEN "variable/static mismatch"
        ELSE IF r.filename \in unreadable THEN "unreadable file(s)"
        ELSE IF Sha256(c) # r.entry.hash THEN "update_hash"
        ELSE "ok"

\* "Update hash" fixups, in iteration order.
HashActions(data, dir, unreadable) ==
    LET Test(r) == FileCheck(r, dir, unreadable) = "update_hash"
        hits == SelectSeq(Checked(data), Test)
    IN  [i \in 1..Len(hits) |->
            Fixup("update_hash", hits[i].repo, hits[i].filename,
                  Sha256(dir[hits[i].filename]), "")]

\* The records that flag their repo for a reinstall.
Flagging(data, dir, unreadable) ==
    LET Test(r) == FileCheck(r, dir, unreadable) \notin {"update_hash", "ok"}
    IN  SelectSeq(Checked(data), Test)

\* Mutant: the keys in descending order.
RECURSIVE SortedKeysDescending(_)
SortedKeysDescending(S) ==
    IF S = {} THEN <<>>
    ELSE LET m == CHOOSE k \in S : \A o \in S : KeyRank(k) >= KeyRank(o)
         IN  <<m>> \o SortedKeysDescending(S \ {m})

\* sorted(): the keys of a set by rank.
RECURSIVE SortedKeys(_)
SortedKeys(S) ==
    IF S = {} THEN <<>>
    ELSE LET m == CHOOSE k \in S : \A o \in S : KeyRank(k) <= KeyRank(o)
         IN  <<m>> \o SortedKeys(S \ {m})

\* "Reinstall repo" fixups: one for each flagged repo, with the reason of
\* its last flagging record, sorted by repo key.
ReinstallActions(data, dir, unreadable) ==
    LET flag  == Flagging(data, dir, unreadable)
        repos == SortedKeys({flag[i].repo : i \in 1..Len(flag)})
        Reason(k) == LET i == CHOOSE i \in 1..Len(flag) :
                                  /\ flag[i].repo = k
                                  /\ \A j \in (i + 1)..Len(flag) : flag[j].repo # k
                     IN  FileCheck(flag[i], dir, unreadable)
    IN  [i \in 1..Len(repos) |-> Fixup("reinstall", repos[i], "", "", Reason(repos[i]))]

\* The detection phase of fix_fonts: the list of fixups.
FixPlan(data, dir, unreadable) ==
    InvalidRepoActions(data) \o InvalidEntryActions(data) \o DuplicateActions(data)
        \o HashActions(data, dir, unreadable) \o ReinstallActions(data, dir, unreadable)

\* del_entry and del_duplicate
DelEntry(data, repo, filename) ==
    LET fonts == DictDel(DictGet(data, repo), filename)
    IN  IF fonts = <<>> THEN DictDel(data, repo) ELSE DictSet(data, repo, fonts)

HasEntry(data, repo, filename) ==
    DictHas(data, repo) /\ DictHas(DictGet(data, repo), filename)

\* One fixup applied to st = [data, file, dest, fixed]: the in-memory
\* manifest, the manifest file, the destination directory and the count.
ApplyFixup(a, st, latest, fetch_ok) ==
    CASE a.kind = "del_repo" ->
            [st EXCEPT !.data = DictDel(st.data, a.repo),
                       !.fixed = @ + Len(DictGet(st.data, a.repo))]
      [] a.kind \in {"del_entry", "del_duplicate"} ->
            IF HasEntry(st.data, a.repo, a.filename)
            THEN [st EXCEPT !.data = DelEntry(st.data, a.repo, a.filename), !.fixed = @ + 1]
            ELSE st
      [] a.kind = "update_hash" ->
            IF HasEntry(st.data, a.repo, a.filename)
            THEN [st EXCEPT
                    !.data = DictSet(st.data, a.repo,
                                DictSet(DictGet(st.data, a.repo), a.filename,
                                    [DictGet(DictGet(st.data, a.repo), a.filename)
                                        EXCEPT !.hash = a.new_hash])),
                    !.fixed = @ + 1]
            ELSE st
      [] a.kind = "reinstall" ->
            IF ~DictHas(st.data, a.repo) \/ ~fetch_ok THEN st
            ELSE IF DictGet(st.data, a.repo) = <<>> THEN st
            ELSE LET first == DictGet(st.data, a.repo)[1].v
                     sel == select_fonts(
                                categorize_fonts(ReleaseFiles(first.repo_name, latest)),
                                DEFAULT_PRIORITIES, {}, FullStyles)
                     r == InstallFrom(a.repo, first.owner, first.repo_name, latest, sel,
                                      FALSE, TRUE, st.file, st.dest, {}, {})
                 IN  [st EXCEPT !.file = r.file, !.dest = r.dest, !.fixed = @ + 1]

\* Mutant: every fixup of the list is applied, confirmed or not.
RECURSIVE ApplyAll(_, _, _, _, _, _)
ApplyAll(plan, i, confirmed, st, latest, fetch_ok) ==
    IF i > Len(plan) THEN st
    ELSE ApplyAll(plan, i + 1, confirmed, ApplyFixup(plan[i], st, latest, fetch_ok),
                  latest, fetch_ok)

\* The confirmed fixups applied in the order of the list.
RECURSIVE ApplyFrom(_, _, _, _, _, _)
ApplyFrom(plan, i, confirmed, st, latest, fetch_ok) ==
    IF i > Len(plan) THEN st
    ELSE ApplyFrom(plan, i + 1, confirmed,
                   IF i \in confirmed THEN ApplyFixup(plan[i], st, latest, fetch_ok) ELSE st,
                   latest, fetch_ok)

\* The answers a user may give: in batch mode one for the whole list.
Confirmations(plan, granular) ==
    IF granular THEN SUBSET (1..Len(plan)) ELSE {{}, 1..Len(plan)}

FixCommand(outcome) == [NoCommand EXCEPT !.op = "fix", !.outcome = outcome]

\* The releases and network outcomes a reinstall may meet; one outcome
\* when no reinstall is confirmed.
ReinstallEnvs(plan, confirmed) ==
    IF \E i \in confirmed : plan[i].kind = "reinstall"
    THEN [latest : Versions, fetch_ok : BOOLEAN]
    ELSE {[latest |-> "1.0", fetch_ok |-> TRUE]}

\* The calls of install_single_repo that reinstall_repo made and that
\* returned: one per confirmed reinstall fixup whose repo is in the
\* in-memory manifest, which only the fixups listed before it change.
ReinstallCalls(plan, confirmed, data, env) ==
    LET Test(i) == /\ i \in confirmed
                   /\ plan[i].kind = "reinstall"
                   /\ env.fetch_ok
                   /\ DictHas(data, plan[i].repo)
                   /\ DictGet(data, plan[i].repo) # <<>>
        done == SelectSeq([i \in 1..Len(plan) |-> i], Test)
    IN  [j \in 1..Len(done) |->
            [repo_key |-> plan[done[j]].repo,
             owner |-> DictGet(data, plan[done[j]].repo)[1].v.owner,
             repo_name |-> DictGet(data, plan[done[j]].repo)[1].v.repo_name,
             version |-> env.latest,
             priorities |-> DEFAULT_PRIORITIES]]

\* fix_fonts(backup, granular), without the backup copy.
FixFonts(unreadable) ==
    \E data \in {load_installed_data(installed_file)} :
    \E plan \in {IF data = <<>> THEN <<>> ELSE FixPlan(data, dest, unreadable)} :
    \E granular \in BOOLEAN :
    \E confirmed \in Confirmations(plan, granular) :
        IF data = <<>> \/ plan = <<>> \/ (~granular /\ confirmed = {})
        THEN /\ last' = [FixCommand(IF data = <<>> THEN "no_data"
                                    ELSE IF plan = <<>> THEN "no_issues" ELSE "aborted")
                            EXCEPT !.hash_fails = unreadable]
             /\ actions' = plan
             /\ fix' = [granular |-> granular, confirmed |-> {}, fixed_count |-> 0]
             /\ UNCHANGED diskVars
        ELSE \E env \in ReinstallEnvs(plan, confirmed) :
             \E st \in {ApplyFrom(plan, 1, confirmed,
                                  [data |-> data, file |-> installed_file, dest |-> dest,
                                   fixed |-> 0], env.latest, env.fetch_ok)} :
             /\ last' = [FixCommand("fixed") EXCEPT
                            !.hash_fails = unreadable,
                            !.calls = ReinstallCalls(plan, confirmed, st.data, env)]
             /\ actions' = plan
             /\ fix' = [granular |-> granular, confirmed |-> confirmed,
                        fixed_count |-> st.fixed]
             /\ installed_file' = save_installed_data(st.file, st.data)
             /\ dest' = st.dest

\* The manifests the repair pass of the model starts from.
MaxRepos == 2

FixKeys == {"inter", "roboto", "rsms/inter", "a/b/c"}

Record(content, type) ==
    [hash |-> Sha256(content), type |-> type, version |-> "1.0", owner |-> "rsms",
     repo_name |-> "Inter"]

FixEntries ==
    {<<[k |-> "a.ttf", v |-> Record("x/a.ttf", "static-ttf")]>>,
     <<[k |-> "a.ttf", v |-> Record("x/a.ttf", "static-ttf")],
       [k |-> "c.otf", v |-> Record("x/c.otf", "ttf")]>>,
     <<[k |-> "B.TTF", v |-> Record("x/B.TTF", "variable-ttf")],
       [k |-> "c.otf", v |-> Record("y/g.Otf", "otf")],
       [k |-> "a.ttf", v |-> Record("x/a.ttf", "otf")]>>,
     <<[k |-> "a.ttf", v |-> Record("x/a.ttf", "otf")]>>}

FixManifests ==
    {m \in SeqsUpTo([k : FixKeys, v : FixEntries], MaxRepos) :
        \A i, j \in 1..Len(m) : i # j => m[i].k # m[j].k}

FixDisks ==
    {[n \in FileNames |-> CASE n = "a.ttf" -> "x/a.ttf"
                            [] n = "c.otf" -> "y/g.Otf"
                            [] n = "B.TTF" -> "x/B.TTF"
                            [] OTHER -> Absent],
     [n \in FileNames |-> CASE n = "c.otf" -> "x/c.otf"
                            [] n = "B.TTF" -> "x/d.woff2"
                            [] OTHER -> Absent]}

InitFix ==
    /\ pc = "idle"
    /\ NoFonts
    /\ NoRepair
    /\ last = NoCommand
    /\ installed_file \in FixManifests
    /\ dest \in FixDisks
    /\ writable = TRUE
    /\ NoArchive

\* The fix command.
Fix ==
    /\ pc = "idle"
    /\ FixFonts({})
    /\ pc' = "fixed"
    /\ UNCHANGED <<fontVars, writable, cache, extracted>>

NextFix == Fix

SpecFix == InitFix /\ [][NextFix]_vars

\* The files whose read_bytes raises during a repair pass.
UnreadableFiles == {{"a.ttf", "c.otf"}}

\* The fix command while a file of the destination directory cannot be read.
FixUnreadable ==
    /\ pc = "idle"
    /\ \E unreadable \in UnreadableFiles : FixFonts(unreadable)
    /\ pc' = "fixed"
    /\ UNCHANGED <<fontVars, writable, cache, extracted>>

\* The manifests these repair passes start from: three of the keys, and the
\* entries whose types are all format labels.
FixIoManifests ==
    {m \in FixManifests :
        \A i \in 1..Len(m) :
            /\ m[i].k # "rsms/inter"
            /\ \A j \in 1..Len(m[i].v) : m[i].v[j].v.type \in FormatLabels}

InitFixIo ==
    /\ pc = "idle"
    /\ NoFonts
    /\ NoRepair
    /\ last = NoCommand
    /\ installed_file \in FixIoManifests
    /\ dest \in FixDisks
    /\ writable = TRUE
    /\ NoArchive

NextFixIo == Fix \/ FixUnreadable

SpecFixIo == InitFixIo /\ [][NextFixIo]_vars

\* ------------------------------------------------------------ repair claims
\* The records of a manifest, each with its repo key.
RecordSet(data) ==
    UNION {{[repo |-> data[i].k, filename |-> data[i].v[j].k, entry |-> data[i].v[j].v] :
                j \in 1..Len(data[i].v)} : i \in 1..Len(data)}

\* The extension the fixed table assigns to a format label.
ClaimExt(t) ==
    IF t \in {"variable-ttf", "static-ttf"} THEN ".ttf"
    ELSE IF t = "otf" THEN ".otf"
    ELSE IF t \in {"variable-woff", "static-woff"} THEN ".woff"
    ELSE ".woff2"

\* The type is a format label and the file name, as written, does not end
\* with the extension of that label.
ClaimFlagged(r) ==
    /\ r.entry.type \in FormatLabels
    /\ NameSuffix(r.filename) # ClaimExt(r.entry.type)

ClaimSurviving(data) ==
    {r \in RecordSet(data) : ~InvalidRepo(r.repo) /\ ~ClaimFlagged(r)}

PosOf(data, k) == CHOOSE i \in 1..Len(data) : data[i].k = k

\* A surviving record whose file name an earlier surviving repo holds.
ClaimLater(data, r) ==
    /\ r \in ClaimSurviving(data)
    /\ \E o \in ClaimSurviving(data) :
        o.filename = r.filename /\ PosOf(data, o.repo) < PosOf(data, r.repo)

KindIndexes(plan, kind) == {i \in DOMAIN plan : plan[i].kind = kind}

PlanCount(plan, kind, repo, filename) ==
    Cardinality({i \in KindIndexes(plan, kind) :
                    plan[i].repo = repo /\ plan[i].filename = filename})

\* C9: the plan of fix_fonts holds one "remove duplicate" fixup for every
\* surviving record whose file name an earlier surviving repo also holds,
\* and none for any other record; applying exactly these fixups removes
\* exactly those records and leaves every other record as it was.
C9_FirstSeenWins ==
    [][LET data  == load_installed_data(installed_file)
           after == RecordSet(load_installed_data(installed_file'))
           dups  == KindIndexes(actions', "del_duplicate")
       IN  last'.op = "fix" =>
            /\ \A r \in RecordSet(data) :
                PlanCount(actions', "del_duplicate", r.repo, r.filename)
                    = IF ClaimLater(data, r) THEN 1 ELSE 0
            /\ Cardinality(dups) = Cardinality({r \in RecordSet(data) : ClaimLater(data, r)})
            /\ (fix'.granular /\ dups # {} /\ fix'.confirmed = dups)
                => after = {r \in RecordSet(data) : ~ClaimLater(data, r)}]_vars

C9_Witness ==
    /\ pc = "fixed"
    /\ fix.granular
    /\ fix.confirmed # {}
    /\ fix.confirmed = KindIndexes(actions, "del_duplicate")
    /\ \E i \in fix.confirmed :
        /\ ~HasEntry(load_installed_data(installed_file), actions[i].repo,
                     actions[i].filename)
        /\ \E k \in Range(DictKeys(load_installed_data(installed_file))) :
            /\ k # actions[i].repo
            /\ HasEntry(load_installed_data(installed_file), k, actions[i].filename)

\* C10: the plan of fix_fonts holds one "remove invalid entry" fixup for
\* every record of a repo not invalid whose type is a format label and
\* whose file name does not end with the extension of that label, and
\* none for any other record; applying such fixups removes those records
\* only, and a repo key only when none of its records is left.
C10_TypeExtensionCheck ==
    [][LET data  == load_installed_data(installed_file)
           saved == load_installed_data(installed_file')
           after == RecordSet(saved)
           bad   == KindIndexes(actions', "del_entry")
           gone  == {r \in RecordSet(data) :
                        \E i \in fix'.confirmed :
                            actions'[i].repo = r.repo /\ actions'[i].filename = r.filename}
       IN  last'.op = "fix" =>
            /\ \A r \in RecordSet(data) :
                PlanCount(actions', "del_entry", r.repo, r.filename)
                    = IF ~InvalidRepo(r.repo) /\ ClaimFlagged(r) THEN 1 ELSE 0
            /\ Cardinality(bad)
                = Cardinality({r \in RecordSet(data) : ~InvalidRepo(r.repo) /\ ClaimFlagged(r)})
            /\ (fix'.granular /\ fix'.confirmed # {} /\ fix'.confirmed \subseteq bad)
                => /\ after = RecordSet(data) \ gone
                   /\ Range(DictKeys(saved)) = {r.repo : r \in after}]_vars

C10_Witness ==
    /\ pc = "fixed"
    /\ fix.granular
    /\ fix.confirmed # {}
    /\ fix.confirmed \subseteq KindIndexes(actions, "del_entry")
    /\ \E i \in fix.confirmed :
        /\ actions[i].filename = "B.TTF"
        /\ DictHas(load_installed_data(installed_file), actions[i].repo)
    /\ \E i \in fix.confirmed :
        ~DictHas(load_installed_data(installed_file), actions[i].repo)

\* A record that reaches the file checks: its repo is not invalid, it is
\* not flagged by the type/extension check and it is not a duplicate to
\* be removed.
ClaimReaches(data, r) == r \in ClaimSurviving(data) /\ ~ClaimLater(data, r)

\* The file of the record is present, parses as a font and is variable
\* iff the recorded type is a variable label.
ClaimSound(r, dir) ==
    /\ dir[r.filename] # Absent
    /\ FontTable[dir[r.filename]].parses
    /\ FontTable[dir[r.filename]].fvar = (r.entry.type \in VariableLabels)

ClaimDrifted(r, dir) == ClaimSound(r, dir) /\ Sha256(dir[r.filename]) # r.entry.hash

\* C11: for a record that reaches the file checks and whose file is
\* present, parses, has the variable-ness of its type and a hash other
\* than the recorded one, the plan holds one "update hash" fixup carrying
\* the current hash, and no reinstall of its repo unless another record
\* of the repo calls for one; applying that fixup alone changes the hash
\* of that record and nothing else, on disk or in the manifest.
C11_HashDriftInPlace ==
    [][LET data  == load_installed_data(installed_file)
           after == RecordSet(load_installed_data(installed_file'))
           hits  == KindIndexes(actions', "update_hash")
       IN  last'.op = "fix" =>
            /\ \A r \in RecordSet(data) :
                (ClaimReaches(data, r) /\ ClaimDrifted(r, dest)) =>
                    /\ \E i \in hits :
                        /\ actions'[i].repo = r.repo
                        /\ actions'[i].filename = r.filename
                        /\ actions'[i].new_hash = Sha256(dest[r.filename])
                    /\ PlanCount(actions', "update_hash", r.repo, r.filename) = 1
                    /\ (\A o \in RecordSet(data) :
                            (o.repo = r.repo /\ ClaimReaches(data, o)) => ClaimSound(o, dest))
                        => ~\E i \in KindIndexes(actions', "reinstall") :
                                actions'[i].repo = r.repo
            /\ \A i \in hits :
                (fix'.granular /\ fix'.confirmed = {i}) =>
                    /\ dest' = dest
                    /\ \E r \in RecordSet(data) :
                        /\ r.repo = actions'[i].repo
                        /\ r.filename = actions'[i].filename
                        /\ after = (RecordSet(data) \ {r})
                                     \cup {[r EXCEPT !.entry.hash = Sha256(dest[r.filename])]}
                        /\ Sha256(dest[r.filename]) # r.entry.hash]_vars

C11_Witness ==
    /\ pc = "fixed"
    /\ fix.granular
    /\ fix.fixed_count = 1
    /\ \E i \in KindIndexes(actions, "update_hash") :
        /\ fix.confirmed = {i}
        /\ HasEntry(load_installed_data(installed_file), actions[i].repo, actions[i].filename)
        /\ DictGet(DictGet(load_installed_data(installed_file), actions[i].repo),
                   actions[i].filename).hash = Sha256(dest[actions[i].filename])
        /\ ~\E j \in KindIndexes(actions, "reinstall") : actions[j].repo = actions[i].repo

\* --------------------------------------------------------- install, then fix
\* The extracted archives of the model: lists of distinct paths.
ArchiveFiles ==
    {fs \in SeqsUpTo(FontPaths, MaxFiles) :
        \A i, j \in 1..Len(fs) : i # j => fs[i] # fs[j]}

\* The priority lists the install command accepts.
AcceptedPriorities == SeqsUpTo(FormatLabels, MaxPriorities) \ {<<>>}

InitRoundTrip == InitInstall

\* The install command on an empty library, for any archive and priorities.
RoundTripInstall ==
    /\ pc = "idle"
    /\ \E req \in InstallRequests, files \in ArchiveFiles, pris \in AcceptedPriorities :
        InstallSingleRepo(req.repo_key, req.owner, req.repo_name, "1.0", files, pris, {},
                          FullStyles, FALSE, TRUE, TRUE, {}, {})
    /\ pc' = "installed"
    /\ UNCHANGED <<fixVars, writable, cache, extracted>>

\* The fix command right after the install.
RoundTripFix ==
    /\ pc = "installed"
    /\ FixFonts({})
    /\ pc' = "checked"
    /\ UNCHANGED <<fontVars, writable, cache, extracted>>

NextRoundTrip == RoundTripInstall \/ RoundTripFix

SpecRoundTrip == InitRoundTrip /\ [][NextRoundTrip]_vars

\* C8: after an install into an empty library, the detection phase of
\* fix_fonts on the untouched destination directory lists no fixup.
C8_RoundTrip == pc = "checked" => actions = <<>>

\* ---------------------------------------------------------------- uninstall
\* The repo arguments of the commands of the model: the text, the number
\* of its "/"-separated parts, and the owner and name of a two-part one.
RepoArgs ==
    {[arg |-> "inter",        parts |-> 1, owner |-> "",       name |-> "inter"],
     [arg |-> "Inter",        parts |-> 1, owner |-> "",       name |-> "Inter"],
     [arg |-> "roboto",       parts |-> 1, owner |-> "",       name |-> "roboto"],
     [arg |-> "rsms/Inter",   parts |-> 2, owner |-> "rsms",   name |-> "Inter"],
     [arg |-> "google/inter", parts |-> 2, owner |-> "google", name |-> "inter"],
     [arg |-> "a/b/c",        parts |-> 3, owner |-> "",       name |-> ""]}

ArgOf(text) == CHOOSE a \in RepoArgs : a.arg = text

\* The manifest key an uninstall argument names, "" when the argument is
\* rejected or names nothing installed.
UninstallKey(a, data) ==
    IF a.parts > 1
    THEN IF a.parts # 2 THEN ""
         ELSE IF ~DictHas(data, Lower(a.name)) THEN ""
         ELSE IF DictGet(data, Lower(a.name)) = <<>> THEN ""
         ELSE IF Lower(DictGet(data, Lower(a.name))[1].v.owner) # Lower(a.owner) THEN ""
         ELSE Lower(a.name)
    ELSE IF DictHas(data, Lower(a.name)) THEN Lower(a.name) ELSE ""

\* Mutant: a modified file is deleted without force.
MayDeleteAlways(current_hash, entry, force) == TRUE

\* current_hash == entry["hash"] or force
MayDelete(current_hash, entry, force) == current_hash = entry.hash \/ force

\* The loop over the records of one repo: st = [remaining, dir, deleted].
RECURSIVE UninstallRecords(_, _, _, _, _, _)
UninstallRecords(fonts, i, st, force, hash_fails, unlink_fails) ==
    IF i > Len(fonts) THEN st
    ELSE LET filename == fonts[i].k
             entry    == fonts[i].v
             keep     == [st EXCEPT !.remaining = Append(@, fonts[i])]
             next     ==
                IF st.dir[filename] = Absent THEN keep
                ELSE IF filename \in hash_fails THEN keep
                ELSE IF MayDelete(Sha256(st.dir[filename]), entry, force)
                     THEN IF filename \in unlink_fails THEN keep
                          ELSE [st EXCEPT !.dir = [@ EXCEPT ![filename] = Absent],
                                          !.deleted = @ \cup {filename}]
                     ELSE keep
         IN  UninstallRecords(fonts, i + 1, next, force, hash_fails, unlink_fails)

\* Mutant: the repo key is dropped whatever is left of its records.
AfterRepoDropAlways(data, repo_key, remaining) == DictDel(data, repo_key)

\* installed_data[repo_key] = remaining, or del installed_data[repo_key]
AfterRepo(data, repo_key, remaining) ==
    IF remaining # <<>> THEN DictSet(data, repo_key, remaining) ELSE DictDel(data, repo_key)

\* The loop over the repo arguments: st = [data, dir, deleted], deleted
\* holding a [repo, filename] for every unlinked file.
RECURSIVE UninstallArgs(_, _, _, _, _, _)
UninstallArgs(args, i, st, force, hash_fails, unlink_fails) ==
    IF i > Len(args) THEN st
    ELSE LET repo_key == UninstallKey(ArgOf(args[i]), st.data)
         IN  IF repo_key = ""
             THEN UninstallArgs(args, i + 1, st, force, hash_fails, unlink_fails)
             ELSE LET r == UninstallRecords(DictGet(st.data, repo_key), 1,
                                            [remaining |-> <<>>, dir |-> st.dir, deleted |-> {}],
                                            force, hash_fails, unlink_fails)
                  IN  UninstallArgs(args, i + 1,
                        [data    |-> AfterRepo(st.data, repo_key, r.remaining),
                         dir     |-> r.dir,
                         deleted |-> st.deleted
                                       \cup {[repo |-> repo_key, filename |-> n] : n \in r.deleted}],
                        force, hash_fails, unlink_fails)

\* uninstall_fonts(repo, force)
UninstallFonts(args, force, hash_fails, unlink_fails) ==
    LET call == [NoCommand EXCEPT !.op = "uninstall", !.args = args, !.force = force,
                                  !.hash_fails = hash_fails, !.unlink_fails = unlink_fails]
    IN  \E data \in {load_installed_data(installed_file)} :
        IF data = <<>>
        THEN /\ last' = [call EXCEPT !.outcome = "no_data"]
             /\ UNCHANGED diskVars
        ELSE \E st \in {UninstallArgs(args, 1, [data |-> data, dir |-> dest, deleted |-> {}],
                                      force, hash_fails, unlink_fails)} :
             /\ last' = [call EXCEPT !.outcome = "done", !.deleted = st.deleted]
             /\ installed_file' = save_installed_data(installed_file, st.data)
             /\ dest' = st.dir

\* The argument lists of the uninstall commands of the model.
UninstallRequests ==
    {<<"inter">>, <<"Inter">>, <<"rsms/Inter">>, <<"google/inter">>, <<"a/b/c">>,
     <<"inter", "roboto">>, <<"roboto", "inter">>, <<"inter", "inter">>,
     <<"a/b/c", "roboto">>}

\* The files whose read_bytes or unlink fails.
UninstallFailures ==
    {[hash_fails |-> {}, unlink_fails |-> {}],
     [hash_fails |-> {"a.ttf"}, unlink_fails |-> {}],
     [hash_fails |-> {}, unlink_fails |-> {"c.otf"}]}

InitUninstall == InitFix

\* The uninstall command.
Uninstall ==
    /\ pc = "idle"
    /\ \E args \in UninstallRequests, force \in BOOLEAN, io \in UninstallFailures :
        UninstallFonts(args, force, io.hash_fails, io.unlink_fails)
    /\ pc' = "uninstalled"
    /\ UNCHANGED <<fontVars, fixVars, writable, cache, extracted>>

NextUninstall == Uninstall

SpecUninstall == InitUninstall /\ [][NextUninstall]_vars

\* --------------------------------------------------------- uninstall claims
\* The manifest keys the arguments of a command can name.
ClaimRequested(args) ==
    {Lower(ArgOf(args[i]).name) : i \in {j \in 1..Len(args) : ArgOf(args[j]).parts <= 2}}

\* C12: a file that uninstall_fonts unlinks existed, could be hashed, and
\* either force was set or its hash was the one a record of a requested
\* repo holds for it; no other change is made to the directory.
C12_UninstallSafety ==
    [][LET data == load_installed_data(installed_file)
       IN  last'.op = "uninstall" =>
            \A n \in FileNames :
                dest'[n] # dest[n] =>
                    /\ dest'[n] = Absent
                    /\ dest[n] # Absent
                    /\ n \notin last'.hash_fails
                    /\ \E r \in RecordSet(data) :
                        /\ r.filename = n
                        /\ r.repo \in ClaimRequested(last'.args)
                        /\ (last'.force \/ r.entry.hash = Sha256(dest[n]))]_vars

C12_Witness ==
    /\ pc = "uninstalled"
    /\ ~last.force
    /\ last.deleted # {}
    /\ \E d \in last.deleted :
       \E r \in RecordSet(load_installed_data(installed_file)) :
        /\ r.repo = d.repo
        /\ dest[r.filename] # Absent
        /\ Sha256(dest[r.filename]) # r.entry.hash
        /\ r.filename \notin (last.hash_fails \cup last.unlink_fails)

\* C13: the manifest uninstall_fonts saves is the manifest before the
\* call without the records whose file this call unlinked: a record whose
\* file is missing, cannot be hashed, is modified (force not set) or
\* cannot be unlinked stays; a repo key is dropped iff none of its records
\* is left; the repos that were not requested are as they were.
C13_UninstallManifest ==
    [][LET data  == load_installed_data(installed_file)
           saved == load_installed_data(installed_file')
           gone  == {r \in RecordSet(data) :
                        [repo |-> r.repo, filename |-> r.filename] \in last'.deleted}
       IN  last'.op = "uninstall" =>
            /\ RecordSet(saved) = RecordSet(data) \ gone
            /\ \A r \in gone :
                /\ r.repo \in ClaimRequested(last'.args)
                /\ dest[r.filename] # Absent
                /\ dest'[r.filename] = Absent
            /\ \A n \in FileNames :
                dest'[n] # dest[n] => Cardinality({r \in gone : r.filename = n}) = 1
            /\ \A r \in RecordSet(data) :
                (\/ dest[r.filename] = Absent
                 \/ r.filename \in last'.hash_fails
                 \/ r.filename \in last'.unlink_fails
                 \/ (~last'.force /\ Sha256(dest[r.filename]) # r.entry.hash))
                    => r \in RecordSet(saved)
            /\ Range(DictKeys(saved)) = {r.repo : r \in RecordSet(saved)}
            /\ \A k \in Range(DictKeys(data)) \ ClaimRequested(last'.args) :
                DictHas(saved, k) /\ DictGet(saved, k) = DictGet(data, k)]_vars

C13_Witness ==
    /\ pc = "uninstalled"
    /\ last.force
    /\ \E d \in last.deleted : ~DictHas(load_installed_data(installed_file), d.repo)
    /\ \E r \in RecordSet(load_installed_data(installed_file)) :
        /\ r.repo \in ClaimRequested(last.args)
        /\ dest[r.filename] = Absent

\* ------------------------------------------------------------------- update
\* The version strings of the model: what v.lstrip("v") returns, the
\* release numbers packaging's Version reads (<<>> when it raises
\* InvalidVersion), and the place of the stripped text in str order.
VersionTable ==
    [v \in {"1.0", "v1.0", "2.0", "v1.9", "1.10", "2023-01-01", "2023-12-01"} |->
        CASE v = "1.0"        -> [clean |-> "1.0",        release |-> <<1, 0>>,  rank |-> 1]
          [] v = "v1.0"       -> [clean |-> "1.0",        release |-> <<1, 0>>,  rank |-> 1]
          [] v = "1.10"       -> [clean |-> "1.10",       release |-> <<1, 10>>, rank |-> 2]
          [] v = "v1.9"       -> [clean |-> "1.9",        release |-> <<1, 9>>,  rank |-> 3]
          [] v = "2.0"        -> [clean |-> "2.0",        release |-> <<2, 0>>,  rank |-> 4]
          [] v = "2023-01-01" -> [clean |-> "2023-01-01", release |-> <<>>,      rank |-> 5]
          [] v = "2023-12-01" -> [clean |-> "2023-12-01", release |-> <<>>,      rank |-> 6]]

clean_version(v) == VersionTable[v].clean

\* Version(a) > Version(b) on the release numbers.
RECURSIVE ReleaseGreater(_, _, _)
ReleaseGreater(a, b, i) ==
    IF i > Len(a) \/ i > Len(b) THEN FALSE
    ELSE IF a[i] # b[i] THEN a[i] > b[i]
    ELSE ReleaseGreater(a, b, i + 1)

\* The comparison of update_fonts: Version objects, and the stripped
\* strings when either Version raises.
IsNewer(latest_version, installed_version) ==
    IF /\ VersionTable[latest_version].release # <<>>
       /\ VersionTable[installed_version].release # <<>>
    THEN ReleaseGreater(VersionTable[latest_version].release,
                        VersionTable[installed_version].release, 1)
    ELSE VersionTable[latest_version].rank > VersionTable[installed_version].rank

\* The key an argument of update adds to repos_to_check, "" when none.
UpdateKey(a, data) ==
    IF a.parts > 1
    THEN IF a.parts # 2 THEN ""
         ELSE LET hits == {i \in 1..Len(data) :
                             /\ data[i].v # <<>>
                             /\ data[i].v[1].v.owner = a.owner
                             /\ data[i].v[1].v.repo_name = a.name}
              IN  IF hits = {} THEN ""
                  ELSE data[CHOOSE i \in hits : \A j \in hits : i <= j].k
    ELSE IF DictHas(data, Lower(a.name)) THEN Lower(a.name) ELSE ""

\* repos_to_check
RECURSIVE CheckFrom(_, _, _)
CheckFrom(args, i, data) ==
    IF i > Len(args) THEN <<>>
    ELSE (IF UpdateKey(ArgOf(args[i]), data) = "" THEN <<>>
          ELSE <<UpdateKey(ArgOf(args[i]), data)>>)
         \o CheckFrom(args, i + 1, data)

ReposToCheck(args, data) == IF args = <<>> THEN DictKeys(data) ELSE CheckFrom(args, 1, data)

\* "fail": neither fetch_release_info nor get_fonts_dir_version answers.
FetchFailed == "fail"

\* repos_to_update: one item for every checked repo whose latest version
\* is newer, with the records it held when it was checked.
RECURSIVE ScheduleFrom(_, _, _, _)
ScheduleFrom(checks, i, data, latest_of) ==
    IF i > Len(checks) THEN <<>>
    ELSE LET k     == checks[i]
             fonts == DictGet(data, k)
             first == fonts[1].v
         IN  (IF /\ DictHas(data, k)
                 /\ fonts # <<>>
                 /\ latest_of[k] # FetchFailed
                 /\ IsNewer(latest_of[k], first.version)
              THEN <<[repo_name |-> k, installed_version |-> first.version,
                      latest_version |-> latest_of[k], owner |-> first.owner,
                      name |-> first.repo_name,
                      fonts |-> [j \in 1..Len(fonts) |-> fonts[j].v]]>>
              ELSE <<>>)
             \o ScheduleFrom(checks, i + 1, data, latest_of)

\* The loop "for font_info in fonts": st = [dir, raised].  A record without
\* a "filename" field raises KeyError.
RECURSIVE UnlinkOld(_, _, _, _)
UnlinkOld(fonts, i, st, unlink_fails) ==
    IF i > Len(fonts) \/ st.raised # "" THEN st
    ELSE IF "filename" \notin DOMAIN fonts[i]
         THEN [st EXCEPT !.raised = "KeyError: 'filename'"]
    ELSE LET filename == fonts[i].filename
         IN  UnlinkOld(fonts, i + 1,
                       IF st.dir[filename] # Absent /\ filename \notin unlink_fails
                       THEN [st EXCEPT !.dir = [@ EXCEPT ![filename] = Absent]]
                       ELSE st,
                       unlink_fails)

\* install_single_repo(owner, name, key, "latest", default_priorities, ...)
\* with force set, as update_fonts calls it.
InstallLatest(repo_key, owner, repo_name, version, file, dir) ==
    InstallFrom(repo_key, owner, repo_name, version,
                select_fonts(categorize_fonts(ReleaseFiles(repo_name, version)),
                             DEFAULT_PRIORITIES, {}, FullStyles),
                FALSE, TRUE, file, dir, {}, {})

\* One item of repos_to_update: st = [data, file, dir, updated, raised],
\* data being the manifest update_fonts loaded at its start.
UpdateOne(item, st, install_ok, unlink_fails) ==
    LET u == UnlinkOld(item.fonts, 1, [dir |-> st.dir, raised |-> ""], unlink_fails)
    IN  IF u.raised # "" THEN [st EXCEPT !.dir = u.dir, !.raised = u.raised]
        ELSE IF ~DictHas(st.data, item.repo_name)
             THEN [st EXCEPT !.dir = u.dir, !.raised = "KeyError: repo"]
        ELSE LET data1 == DictDel(st.data, item.repo_name)
                 file1 == save_installed_data(st.file, data1)
             IN  IF ~install_ok
                 THEN [st EXCEPT !.data = data1, !.file = file1, !.dir = u.dir,
                                 !.raised = "install failed"]
                 ELSE LET r == InstallLatest(item.repo_name, item.owner, item.name,
                                             item.latest_version, file1, u.dir)
                      IN  [st EXCEPT !.data = data1, !.file = r.file, !.dir = r.dest,
                                     !.updated = Append(@, item.repo_name)]

\* The loop over repos_to_update; an exception ends it.
RECURSIVE UpdateFrom(_, _, _, _, _)
UpdateFrom(items, i, st, install_ok, unlink_fails) ==
    IF i > Len(items) \/ st.raised # "" THEN st
    ELSE UpdateFrom(items, i + 1, UpdateOne(items[i], st, install_ok, unlink_fails),
                    install_ok, unlink_fails)

\* The repos the last loop reports as up to date.
UpToDate(checks, items, data) ==
    {k \in Range(checks) :
        /\ DictHas(data, k)
        /\ k \notin {items[i].repo_name : i \in 1..Len(items)}
        /\ DictGet(data, k) # <<>>}

\* update_fonts(repo, changelog)
UpdateFonts(args, latest_of, install_ok, unlink_fails) ==
    LET call == [NoCommand EXCEPT !.op = "update", !.args = args, !.latest = latest_of,
                                  !.unlink_fails = unlink_fails]
    IN  \E data \in {load_installed_data(installed_file)} :
        IF data = <<>>
        THEN /\ last' = [call EXCEPT !.outcome = "no_data"]
             /\ UNCHANGED diskVars
        ELSE \E checks \in {ReposToCheck(args, data)} :
             \E items \in {ScheduleFrom(checks, 1, data, latest_of)} :
             \E st \in {UpdateFrom(items, 1,
                                   [data |-> data, file |-> installed_file, dir |-> dest,
                                    updated |-> <<>>, raised |-> ""],
                                   install_ok, unlink_fails)} :
             /\ last' = [call EXCEPT
                            !.outcome = IF st.raised = "" THEN "done" ELSE st.raised,
                            !.checked = checks,
                            !.scheduled = [i \in 1..Len(items) |-> items[i].repo_name],
                            !.updated = st.updated,
                            !.reported = IF st.raised = ""
                                         THEN UpToDate(checks, items, st.data) ELSE {}]
             /\ installed_file' = st.file
             /\ dest' = st.dir

\* A record as install_fonts writes it, and one that also carries the
\* "filename" field update_fonts reads.
UpdateRecord(content, type, version) == [Record(content, type) EXCEPT !.version = version]

LegacyRecord(filename, content, type, version) ==
    [f \in {"filename", "hash", "type", "version", "owner", "repo_name"} |->
        IF f = "filename" THEN filename ELSE UpdateRecord(content, type, version)[f]]

UpdateEntries ==
    {<<[k |-> "a.ttf", v |-> UpdateRecord("x/a.ttf", "static-ttf", "1.0")]>>,
     <<[k |-> "a.ttf", v |-> LegacyRecord("a.ttf", "x/a.ttf", "static-ttf", "1.0")],
       [k |-> "c.otf", v |-> LegacyRecord("c.otf", "x/c.otf", "otf", "1.0")]>>,
     <<[k |-> "B.TTF", v |-> LegacyRecord("B.TTF", "x/B.TTF", "variable-ttf", "v1.9")]>>,
     <<[k |-> "c.otf", v |-> LegacyRecord("c.otf", "x/c.otf", "otf", "2023-01-01")]>>}

UpdateKeys == {"inter", "roboto"}

UpdateManifests ==
    {<<>>}
    \cup {<<[k |-> k1, v |-> e1]>> : k1 \in UpdateKeys, e1 \in UpdateEntries}
    \cup {m \in {<<[k |-> k1, v |-> e1], [k |-> k2, v |-> e2]>> :
                    k1 \in UpdateKeys, k2 \in UpdateKeys,
                    e1 \in UpdateEntries, e2 \in UpdateEntries} : m[1].k # m[2].k}

UpdateDisk ==
    [n \in FileNames |-> CASE n = "a.ttf" -> "x/a.ttf"
                           [] n = "c.otf" -> "x/c.otf"
                           [] n = "B.TTF" -> "x/B.TTF"
                           [] OTHER -> Absent]

\* What the fetch of the latest release of a repo answers.
LatestChoices == {FetchFailed, "v1.0", "2.0", "1.10", "2023-12-01"}

UpdateRequests ==
    {<<>>, <<"inter">>, <<"rsms/Inter">>, <<"inter", "roboto">>, <<"inter", "inter">>,
     <<"a/b/c", "roboto">>}

InitUpdate ==
    /\ pc = "idle"
    /\ NoFonts
    /\ NoRepair
    /\ last = NoCommand
    /\ installed_file \in UpdateManifests
    /\ dest = UpdateDisk
    /\ writable = TRUE
    /\ NoArchive

\* The update command.
Update ==
    /\ pc = "idle"
    /\ \E args \in UpdateRequests, latest_of \in [UpdateKeys -> LatestChoices],
          install_ok \in BOOLEAN, unlink_fails \in {{}, {"c.otf"}} :
        UpdateFonts(args, latest_of, install_ok, unlink_fails)
    /\ pc' = "updated"
    /\ UNCHANGED <<fontVars, fixVars, writable, cache, extracted>>

NextUpdate == Update

SpecUpdate == InitUpdate /\ [][NextUpdate]_vars

\* ------------------------------------------------------------ update claims
\* The latest version is strictly greater than the recorded one: as
\* versions when both parse, as stripped strings otherwise.
ClaimNewer(latest_version, recorded) ==
    LET l == VersionTable[latest_version]
        r == VersionTable[recorded]
    IN  IF l.release # <<>> /\ r.release # <<>>
        THEN \E i \in 1..Len(l.release) :
                /\ l.release[i] > r.release[i]
                /\ \A j \in 1..(i - 1) : l.release[j] = r.release[j]
        ELSE l.rank > r.rank

\* The checked repos whose latest version was fetched.
ClaimAnswered(data, cmd) ==
    {k \in Range(cmd.checked) :
        DictHas(data, k) /\ DictGet(data, k) # <<>> /\ cmd.latest[k] # FetchFailed}

ClaimScheduling(data, cmd) ==
    \A k \in ClaimAnswered(data, cmd) :
        (k \in Range(cmd.scheduled))
            <=> ClaimNewer(cmd.latest[k], DictGet(data, k)[1].v.version)

ClaimCurrent(data, cmd) ==
    {k \in ClaimAnswered(data, cmd) :
        ~ClaimNewer(cmd.latest[k], DictGet(data, k)[1].v.version)}

\* C14: update_fonts schedules a checked repo iff its latest version is
\* newer than the recorded one; a repo whose latest version is equal or
\* older is reported up to date, and its files and its manifest entry are
\* as they were.
C14_UpdateByVersion ==
    [][LET data  == load_installed_data(installed_file)
           saved == load_installed_data(installed_file')
       IN  (last'.op = "update" /\ last'.outcome # "no_data") =>
            /\ ClaimScheduling(data, last')
            /\ \A k \in ClaimCurrent(data, last') :
                /\ k \in last'.reported
                /\ DictHas(saved, k)
                /\ DictGet(saved, k) = DictGet(data, k)
                /\ \A n \in Range(DictKeys(DictGet(data, k))) : dest'[n] = dest[n]]_vars

\* C15: the plan of fix_fonts holds a "remove invalid repo" fixup for
\* exactly the repo keys that are not made of two "/"-separated parts, a
\* key without "/" included.
C15_InvalidRepoKeys ==
    [][LET data == load_installed_data(installed_file)
       IN  last'.op = "fix" =>
            \A k \in Range(DictKeys(data)) :
                (\E i \in KindIndexes(actions', "del_repo") : actions'[i].repo = k)
                    <=> KeyParts(k) # 2]_vars

\* The record (repo, filename) is the target of a confirmed removal.
ClaimRemovalConfirmed(plan, confirmed, r) ==
    \E i \in confirmed :
        \/ plan[i].kind = "del_repo" /\ plan[i].repo = r.repo
        \/ /\ plan[i].kind \in {"del_entry", "del_duplicate"}
           /\ plan[i].repo = r.repo
           /\ plan[i].filename = r.filename

ClaimHashConfirmed(plan, confirmed, r) ==
    \E i \in confirmed :
        /\ plan[i].kind = "update_hash"
        /\ plan[i].repo = r.repo
        /\ plan[i].filename = r.filename

\* C16: a declined batch applies nothing and leaves the persisted
\* manifest and the directory as they were; in granular mode the saved
\* manifest is the loaded one with exactly the confirmed removals and hash
\* updates made, and files change only under a confirmed reinstall.
C16_ConfirmedOnly ==
    [][LET data  == load_installed_data(installed_file)
           saved == load_installed_data(installed_file')
           plan  == actions'
       IN  (last'.op = "fix" /\ plan # <<>>) =>
            /\ (~fix'.granular /\ fix'.confirmed = {}) =>
                /\ last'.outcome = "aborted"
                /\ installed_file' = installed_file
                /\ dest' = dest
                /\ fix'.fixed_count = 0
            /\ fix'.granular =>
                /\ fix'.confirmed \subseteq DOMAIN plan
                /\ \A r \in RecordSet(data) :
                    IF ClaimRemovalConfirmed(plan, fix'.confirmed, r)
                    THEN ~HasEntry(saved, r.repo, r.filename)
                    ELSE /\ HasEntry(saved, r.repo, r.filename)
                         /\ DictGet(DictGet(saved, r.repo), r.filename)
                              = IF ClaimHashConfirmed(plan, fix'.confirmed, r)
                                THEN [r.entry EXCEPT !.hash = Sha256(dest[r.filename])]
                                ELSE r.entry
                /\ \A r \in RecordSet(saved) : HasEntry(data, r.repo, r.filename)
                /\ (dest' # dest) =>
                    \E i \in fix'.confirmed : plan[i].kind = "reinstall"]_vars

C16_Witness ==
    /\ pc = "fixed"
    /\ fix.granular
    /\ fix.confirmed # {}
    /\ \E i \in DOMAIN actions \ fix.confirmed :
        /\ actions[i].kind = "del_entry"
        /\ HasEntry(load_installed_data(installed_file), actions[i].repo, actions[i].filename)
    /\ \E i \in fix.confirmed :
        /\ actions[i].kind \in {"del_entry", "del_duplicate"}
        /\ ~HasEntry(load_installed_data(installed_file), actions[i].repo, actions[i].filename)

\* ------------------------------------------------------------------- import
\* repo.split("/") of the keys of the exported files of the model.
SplitKey(k) ==
    CASE k = "rsms/inter" -> <<"rsms", "inter">>
      [] k = "a/b/c"      -> <<"a", "b", "c">>
      [] OTHER            -> <<k>>

\* The entries of the exported files of the model: a repo key and its
\* records, which carry "owner" and "repo_name" or (old format) do not.
ExportedNew(type, owner, repo_name) ==
    [type |-> type, version |-> "1.0", owner |-> owner, repo_name |-> repo_name]

ExportedOld(type) == [type |-> type, version |-> "1.0"]

ExportedItems ==
    {[k |-> "inter",      v |-> <<[k |-> "a.ttf", v |-> ExportedNew("static-ttf", "rsms", "Inter")]>>],
     [k |-> "Inter",      v |-> <<[k |-> "a.ttf", v |-> ExportedNew("static-ttf", "rsms", "Inter")]>>],
     [k |-> "roboto",     v |-> <<[k |-> "a.ttf", v |-> ExportedNew("static-ttf", "google",
                                                                    "roboto-classic")]>>],
     [k |-> "rsms/inter", v |-> <<[k |-> "a.ttf", v |-> ExportedOld("static-ttf")],
                                  [k |-> "B.TTF", v |-> ExportedOld("variable-ttf")]>>],
     [k |-> "a/b/c",      v |-> <<[k |-> "a.ttf", v |-> ExportedOld("static-ttf")]>>],
     [k |-> "inter",      v |-> <<[k |-> "a.ttf", v |-> ExportedOld("static-ttf")]>>],
     [k |-> "roboto",     v |-> <<>>]}

\* The types of an entry: list({...})[0] is any one of them.
TypesOf(fonts) == {fonts[i].v.type : i \in 1..Len(fonts)}

\* The owner and repo name import_fonts installs an entry from.
ImportSource(repo, first_entry) ==
    IF "owner" \in DOMAIN first_entry
    THEN [ok |-> TRUE, owner |-> first_entry.owner, repo_name |-> repo]
    ELSE IF Len(SplitKey(repo)) = 2
         THEN [ok |-> TRUE, owner |-> SplitKey(repo)[1], repo_name |-> SplitKey(repo)[2]]
         ELSE [ok |-> FALSE, owner |-> "", repo_name |-> ""]

\* types[0] of list({...}): the type of the records when they agree, any
\* one of their types (pick) when they do not.
FirstType(fonts, pick) ==
    IF Cardinality(TypesOf(fonts)) = 1 THEN CHOOSE t \in TypesOf(fonts) : TRUE ELSE pick

\* One entry of the exported file: st = [file, dir, calls, skipped, raised].
ImportOne(item, st, force, pick, fetch_fails) ==
    LET src  == ImportSource(item.k, item.v[1].v)
        call == [owner |-> src.owner, repo_name |-> src.repo_name, repo_key |-> item.k,
                 version |-> item.v[1].v.version,
                 priorities |-> <<FirstType(item.v, pick)>>]
    IN  IF item.v = <<>> THEN st
        ELSE IF ~src.ok THEN [st EXCEPT !.skipped = @ \cup {item.k}]
        ELSE IF WoffGuard(call.priorities, FALSE, force)
             THEN [st EXCEPT !.calls = Append(@, call)]
        ELSE IF item.k \in fetch_fails
             THEN [st EXCEPT !.calls = Append(@, call), !.raised = "install failed"]
        ELSE LET r == InstallFrom(call.repo_key, call.owner, call.repo_name, call.version,
                                  select_fonts(
                                      categorize_fonts(ReleaseFiles(call.repo_name, call.version)),
                                      call.priorities, {}, FullStyles),
                                  FALSE, force, st.file, st.dir, {}, {})
             IN  [st EXCEPT !.calls = Append(@, call), !.file = r.file, !.dir = r.dest]

\* The loop over the exported entries; an exception ends it.
RECURSIVE ImportFrom(_, _, _, _, _, _)
ImportFrom(exported, i, st, force, pick, fetch_fails) ==
    IF i > Len(exported) \/ st.raised # "" THEN st
    ELSE ImportFrom(exported, i + 1, ImportOne(exported[i], st, force, pick, fetch_fails),
                    force, pick, fetch_fails)

\* import_fonts(file, force, local) into the default directory.
ImportFonts(exported, force, pick, fetch_fails) ==
    \E st \in {ImportFrom(exported, 1,
                          [file |-> installed_file, dir |-> dest, calls |-> <<>>,
                           skipped |-> {}, raised |-> ""],
                          force, pick, fetch_fails)} :
        /\ last' = [NoCommand EXCEPT !.op = "import", !.force = force, !.calls = st.calls,
                                     !.skipped = st.skipped,
                                     !.args = exported,
                                     !.outcome = IF st.raised = "" THEN "done" ELSE st.raised]
        /\ installed_file' = st.file
        /\ dest' = st.dir

\* The exported files of the model: one or two entries with distinct keys.
ExportedFiles ==
    {<<x>> : x \in ExportedItems}
    \cup {f \in {<<x, y>> : x \in ExportedItems, y \in ExportedItems} : f[1].k # f[2].k}

\* The keys of the entries whose install cannot fetch its release.
ImportFetchFailures == {{}, {"inter"}, {"roboto"}}

\* The library an import meets: empty, or with one repo installed.
ImportLibraries ==
    {[file |-> <<>>, dir |-> EmptyDir],
     [file |-> <<[k |-> "inter",
                  v |-> <<[k |-> "a.ttf", v |-> Record("x/a.ttf", "static-ttf")]>>]>>,
      dir  |-> [EmptyDir EXCEPT !["a.ttf"] = "x/a.ttf"]]}

InitImport ==
    /\ pc = "idle"
    /\ NoFonts
    /\ NoRepair
    /\ last = NoCommand
    /\ \E lib \in ImportLibraries : installed_file = lib.file /\ dest = lib.dir
    /\ writable = TRUE
    /\ NoArchive

\* The import command.
Import ==
    /\ pc = "idle"
    /\ \E exported \in ExportedFiles, force \in BOOLEAN,
          pick \in {"static-ttf", "variable-ttf"}, fetch_fails \in ImportFetchFailures :
        ImportFonts(exported, force, pick, fetch_fails)
    /\ pc' = "imported"
    /\ UNCHANGED <<fontVars, fixVars, writable, cache, extracted>>

NextImport == Import

SpecImport == InitImport /\ [][NextImport]_vars

\* ------------------------------------------------- an unwritable manifest
\* The manifests the commands start from while the file is read-only: the
\* empty one and those of the single repo "inter".
SaveFailsManifests ==
    {m \in UpdateManifests : Len(m) = 0 \/ (Len(m) = 1 /\ m[1].k = "inter")}

InitSaveFails ==
    /\ pc = "idle"
    /\ NoFonts
    /\ NoRepair
    /\ last = NoCommand
    /\ installed_file \in SaveFailsManifests
    /\ dest = UpdateDisk
    /\ writable = FALSE
    /\ NoArchive

NextSaveFails == Install \/ Uninstall \/ Update \/ Fix

SpecSaveFails == InitSaveFails /\ [][NextSaveFails]_vars

\* The last command went through to its end, past a call of
\* save_installed_data.
CompletedWithSave ==
    \/ last.op = "install" /\ ~last.local /\ last.outcome = "installed"
    \/ last.op = "uninstall" /\ last.outcome = "done"
    \/ last.op = "update" /\ last.outcome = "done" /\ last.updated # <<>>
    \/ last.op = "fix" /\ last.outcome = "fixed"

\* C18: no command completes while the manifest file cannot be written.
C18_SaveFailureIsHard == ~writable => ~CompletedWithSave

\* C19: an update whose install fails for one repo still processes every
\* other repo it scheduled.
C19_SiblingsContinue ==
    (last.op = "update" /\ last.outcome = "install failed")
        => Len(last.updated) + 1 = Len(last.scheduled)

\* C17: every repo key of the persisted manifest, and every repo key a
\* command works with, is lower-case.
C17_LowercaseKeys ==
    /\ \A i \in DOMAIN installed_file : Lower(installed_file[i].k) = installed_file[i].k
    /\ \A i \in DOMAIN last.calls : Lower(last.calls[i].repo_key) = last.calls[i].repo_key

\* C20: import_fonts installs an entry from the owner and repo name its
\* records carry; without them, from the two parts of the repo key; an
\* entry with neither is skipped and the others are still imported.
C20_ImportSource ==
    last.op = "import" =>
        \A i \in DOMAIN last.args :
            LET item  == last.args[i]
                calls == {c \in Range(last.calls) : c.repo_key = item.k}
            IN  item.v # <<>> =>
                    IF "owner" \in DOMAIN item.v[1].v
                    THEN \A c \in calls : /\ c.owner = item.v[1].v.owner
                                          /\ c.repo_name = item.v[1].v.repo_name
                    ELSE IF Len(SplitKey(item.k)) = 2
                         THEN \A c \in calls : /\ c.owner = SplitKey(item.k)[1]
                                               /\ c.repo_name = SplitKey(item.k)[2]
                         ELSE calls = {} /\ item.k \in last.skipped

\* ---------------------------------------------------------------- archives
\* The deepest member path _is_safe_archive_path accepts.
MaxParts == 15

\* A member path is what path.split("/") gives: its components, <<"">> for
\* the empty path and a first component "" for a path starting with "/".
Deep(n) == [i \in 1..n |-> IF i = n THEN "f.bin" ELSE "d"]

\* Path(path).parts, for a relative path: the components that are not empty.
Parts(path) ==
    LET Test(c) == c # ""
    IN  SelectSeq(path, Test)

\* (extract_dir / path).resolve(), as the depth below extract_dir; -1 once
\* the path has left extract_dir.
RECURSIVE ResolveDepth(_, _, _)
ResolveDepth(path, i, depth) ==
    IF depth < 0 \/ i > Len(path) THEN depth
    ELSE ResolveDepth(path, i + 1,
                      CASE path[i] = ".." -> depth - 1
                        [] path[i] = ""   -> depth
                        [] OTHER          -> depth + 1)

\* _is_safe_archive_path(path, extract_dir)
is_safe_archive_path(path) ==
    IF path = <<"">> THEN FALSE
    ELSE IF path[1] = "" THEN FALSE
    ELSE IF ".." \in Range(path) THEN FALSE
    ELSE IF Len(Parts(path)) > MaxParts THEN FALSE
    ELSE ResolveDepth(path, 1, 0) >= 0

\* _get_safe_members: the members whose name is safe, in archive order.
get_safe_members(members) ==
    LET Test(m) == is_safe_archive_path(m.path)
    IN  SelectSeq(members, Test)

\* The member that holds a font file of the model.
FontMember(p) ==
    [path |-> <<IF p = "y/g.Otf" THEN "y" ELSE "x", FontTable[p].name>>, font |-> p]

\* A member that holds no font.
PlainMember(path) == [path |-> path, font |-> ""]

\* The archive asset of a release: its font files, and the other members.
ArchiveOf(repo_name, version) ==
    [i \in 1..Len(ReleaseFiles(repo_name, version)) |->
        FontMember(ReleaseFiles(repo_name, version)[i])]
    \o CASE Lower(repo_name) = "inter" /\ version = "1.0" ->
                <<PlainMember(<<"..", "f.bin">>), PlainMember(Deep(MaxParts))>>
         [] Lower(repo_name) = "inter" /\ version = "2.0" ->
                <<PlainMember(Deep(MaxParts + 1))>>
         [] version = "1.0" -> <<PlainMember(<<"", "etc", "f.bin">>)>>
         [] OTHER           -> <<PlainMember(<<"d", "..", "..", "f.bin">>)>>

\* The members that extractall writes whatever the archive format and the
\* Python version: those with a relative path without "..".
AlwaysWritten(m) == m.path # <<"">> /\ m.path[1] # "" /\ ".." \notin Range(m.path)

\* archive_ref.extractall(extract_dir): every member; zipfile rewrites an
\* absolute or ".." name and tarfile writes it, rejects it or raises,
\* depending on its extraction filter, so lax says which of those are written.
extractall(members, lax) ==
    LET Test(m) == AlwaysWritten(m) \/ m.path \in lax
    IN  SelectSeq(members, Test)

\* The choices of lax for an archive.
LaxChoices(members) == SUBSET {members[i].path : i \in {j \in 1..Len(members) : ~AlwaysWritten(members[j])}}

\* The cache key of a release archive of a GitHub repo.
CacheKey(owner, repo_name, version) == <<owner, repo_name, version>>

\* get_or_download_and_extract_archive: from the cache or downloaded (and
\* then cached), the safe members are extracted.
get_or_download_and_extract_archive(key, members, cached) ==
    [members |-> get_safe_members(members), cache |-> cached \cup {key}]

\* The extraction of install_single_repo for a release of a GitHub repo: a
\* release named by its tag is looked up in the cache first.
ExtractRelease(owner, repo_name, release, version, cached, lax) ==
    LET key     == CacheKey(owner, repo_name, version)
        members == ArchiveOf(repo_name, version)
    IN  IF release # "latest" /\ key \in cached
        THEN [members |-> extractall(members, lax), cache |-> cached]
        ELSE get_or_download_and_extract_archive(key, members, cached)

\* extract_dir.rglob over the four font extensions: the fonts extracted.
FontsOf(members) ==
    LET Test(m) == m.font # ""
        fonts   == SelectSeq(members, Test)
    IN  [i \in 1..Len(fonts) |-> fonts[i].font]

ArchiveRequests ==
    {[repo_key |-> "inter", owner |-> "rsms", repo_name |-> "Inter"],
     [repo_key |-> "roboto", owner |-> "google", repo_name |-> "roboto"]}

InitArchive == InitInstall

\* The install command for one repo, with release "latest" or a tag; latest
\* is the tag of the latest release.
InstallRelease ==
    /\ pc = "idle"
    /\ \E req \in ArchiveRequests, release \in {"latest"} \cup Versions,
          latest \in Versions, force \in BOOLEAN :
        \E version \in {IF release = "latest" THEN latest ELSE release} :
        \E lax \in LaxChoices(ArchiveOf(req.repo_name, version)) :
        \E x \in {ExtractRelease(req.owner, req.repo_name, release, version, cache, lax)} :
            /\ cache' = x.cache
            /\ extracted' = x.members
            /\ InstallSingleRepo(req.repo_key, req.owner, req.repo_name, version,
                                 FontsOf(x.members), DEFAULT_PRIORITIES, {}, FullStyles,
                                 FALSE, force, TRUE, {}, {})
    /\ pc' = "idle"
    /\ UNCHANGED <<fixVars, writable>>

NextArchive == InstallRelease

SpecArchive == InitArchive /\ [][NextArchive]_vars

\* A safe path, as the claim states it.
ClaimSafePath(path) ==
    /\ path # <<"">>
    /\ path[1] # ""
    /\ ".." \notin Range(path)
    /\ Len(path) <= 15
    /\ ResolveDepth(path, 1, 0) >= 0

\* C22: every archive member an install extracts to disk has a safe path,
\* whether the archive was downloaded or taken from the cache.
C22_SafeExtraction == \A i \in 1..Len(extracted) : ClaimSafePath(extracted[i].path)

\* ------------------------------------------------------------ release assets
ARCHIVE_EXTENSIONS == <<".zip", ".tar.xz", ".tar.gz", ".tgz">>

\* An asset name is its stem and its suffix, the suffix being the archive
\* extension the name ends with, or what else it ends with.
AssetName(stem, suffix) == [stem |-> stem, suffix |-> suffix]

\* any(a["name"].endswith(ext) for ext in ARCHIVE_EXTENSIONS)
IsArchive(a) == a.name.suffix \in Range(ARCHIVE_EXTENSIONS)

\* get_base_and_ext: the name without its archive extension, and the
\* extension; the whole name and "" when it has none.
get_base_and_ext(name) ==
    IF name.suffix \in Range(ARCHIVE_EXTENSIONS)
    THEN <<AssetName(name.stem, ""), name.suffix>>
    ELSE <<name, "">>

\* Mutant: .zip is the preferred extension.
get_priority_zip_first(ext) ==
    CASE ext = ".zip"               -> 1
      [] ext \in {".tar.gz", ".tgz"} -> 2
      [] ext = ".tar.xz"            -> 3
      [] OTHER                      -> 4

\* get_priority: lower is better.
get_priority(ext) ==
    CASE ext = ".tar.xz"            -> 1
      [] ext \in {".tar.gz", ".tgz"} -> 2
      [] ext = ".zip"               -> 3
      [] OTHER                      -> 4

\* Tuple comparison of two keys of two integers.
KeyLess(k1, k2) == k1[1] < k2[1] \/ (k1[1] = k2[1] /\ k1[2] < k2[2])

\* The key of the sort inside a group, and of the sort across groups.
GroupKey(a) == <<get_priority(get_base_and_ext(a.name)[2]), a.size>>
OverallKey(a) == <<a.size, get_priority(get_base_and_ext(a.name)[2])>>

\* sorted(items, key)[0] of a stable sort: the first item of least key.
FirstByGroupKey(items) ==
    items[CHOOSE i \in 1..Len(items) :
            /\ \A j \in 1..Len(items) : ~KeyLess(GroupKey(items[j]), GroupKey(items[i]))
            /\ \A j \in 1..(i - 1) : KeyLess(GroupKey(items[i]), GroupKey(items[j]))]

FirstByOverallKey(items) ==
    items[CHOOSE i \in 1..Len(items) :
            /\ \A j \in 1..Len(items) : ~KeyLess(OverallKey(items[j]), OverallKey(items[i]))
            /\ \A j \in 1..(i - 1) : KeyLess(OverallKey(items[i]), OverallKey(items[j]))]

\* The keys of groups, in the order of their first asset.
RECURSIVE BasesFrom(_, _, _)
BasesFrom(archives, i, acc) ==
    IF i > Len(archives) THEN acc
    ELSE LET base == get_base_and_ext(archives[i].name)[1]
         IN  BasesFrom(archives, i + 1,
                       IF base \in Range(acc) THEN acc ELSE Append(acc, base))

\* groups[base]
GroupOf(archives, base) ==
    LET Test(a) == get_base_and_ext(a.name)[1] = base
    IN  SelectSeq(archives, Test)

\* select_archive_asset
select_archive_asset(assets) ==
    LET archives == SelectSeq(assets, IsArchive)
        bases    == BasesFrom(archives, 1, <<>>)
        best     == [i \in 1..Len(bases) |-> FirstByGroupKey(GroupOf(archives, bases[i]))]
    IN  IF archives = <<>>
        THEN [raises |-> TRUE, asset |-> <<>>]
        ELSE [raises |-> FALSE, asset |-> <<FirstByOverallKey(best)>>]

\* The assets a release may list: archives of two base names and two sizes,
\* and a file that is no archive.
AssetPool ==
    {[name |-> AssetName("fonts", suffix), size |-> size] :
        suffix \in Range(ARCHIVE_EXTENSIONS) \cup {".txt"}, size \in {1, 2}}
    \cup {[name |-> AssetName("web", suffix), size |-> size] :
            suffix \in {".zip", ".tar.xz", ".tar.gz"}, size \in {1, 2}}

InitAssets == InitInstall

\* select_archive_asset on the assets of a release.
SelectArchiveAsset ==
    /\ pc = "idle"
    /\ \E assets \in SeqsUpTo(AssetPool, MaxAssets) :
        \E r \in {select_archive_asset(assets)} :
            last' = [NoCommand EXCEPT !.op = "select_archive_asset", !.args = assets,
                                      !.outcome = IF r.raises THEN "ValueError" ELSE "selected",
                                      !.chosen = r.asset]
    /\ pc' = "selected"
    /\ UNCHANGED <<fontVars, diskVars, fixVars, writable, cache, extracted>>

NextAssets == SelectArchiveAsset

SpecAssets == InitAssets /\ [][NextAssets]_vars

\* The extension priority as the claim states it.
ClaimPriority(a) ==
    CASE a.name.suffix = ".tar.xz"            -> 1
      [] a.name.suffix \in {".tar.gz", ".tgz"} -> 2
      [] a.name.suffix = ".zip"               -> 3

ClaimArchives == {a \in Range(last.args) : a.name.suffix \in {".tar.xz", ".tar.gz", ".tgz", ".zip"}}

\* a is one an asset that its base name keeps: none of the same base name
\* has a better extension, or the same one and a smaller size.
ClaimKept(a) ==
    \A b \in ClaimArchives :
        b.name.stem = a.name.stem =>
            ~KeyLess(<<ClaimPriority(b), b.size>>, <<ClaimPriority(a), a.size>>)

\* C23: select_archive_asset raises ValueError exactly when no asset has an
\* archive extension; otherwise it returns an archive that its base name
\* keeps (best extension, then smaller size), and no base name keeps a
\* smaller one, or one of the same size and a better extension.
C23_SelectArchiveAsset ==
    last.op = "select_archive_asset" =>
        IF ClaimArchives = {}
        THEN last.outcome = "ValueError"
        ELSE /\ last.outcome = "selected"
             /\ Len(last.chosen) = 1
             /\ last.chosen[1] \in ClaimArchives
             /\ ClaimKept(last.chosen[1])
             /\ \A b \in ClaimArchives :
                    ClaimKept(b) =>
                        ~KeyLess(<<b.size, ClaimPriority(b)>>,
                                 <<last.chosen[1].size, ClaimPriority(last.chosen[1])>>)

\* C23 witness: a .zip of one base name is returned, ahead of the larger
\* .tar.xz that another base name keeps over its own .zip of the size of
\* the one returned.
C23_Witness ==
    /\ last.op = "select_archive_asset"
    /\ Len(last.chosen) = 1
    /\ last.chosen[1].name.suffix = ".zip"
    /\ \E b, c \in ClaimArchives :
        /\ b.name.suffix = ".tar.xz"
        /\ b.name.stem # last.chosen[1].name.stem
        /\ b.size > last.chosen[1].size
        /\ c.name.stem = b.name.stem
        /\ c.name.suffix = ".zip"
        /\ c.size = last.chosen[1].size

\* ------------------------------------------------- updates of several repos
\* C24: after an update that reinstalled two or more repos, the persisted
\* manifest holds every one of them, with records of the version installed.
C24_NoLostUpdate ==
    (last.op = "update" /\ last.outcome = "done" /\ Len(last.updated) >= 2) =>
        \A i \in 1..Len(last.updated) :
            /\ DictHas(installed_file, last.updated[i])
            /\ DictGet(installed_file, last.updated[i]) # <<>>

\* ------------------------------------------------- reinstall during a repair
\* The records of an entry are those of files now in the destination
\* directory, at the given version.
WrittenAt(fonts, version) ==
    \A i \in 1..Len(fonts) :
        /\ fonts[i].v.version = version
        /\ dest[fonts[i].k] # Absent
        /\ fonts[i].v.hash = Sha256(dest[fonts[i].k])

\* C25: after a repair whose reinstall of a repo returned, the persisted
\* manifest holds for that repo what the reinstall wrote: records of the
\* version it installed, each with the hash of the file it moved.
C25_ReinstallPersisted ==
    (last.op = "fix" /\ last.outcome = "fixed") =>
        \A i \in 1..Len(last.calls) :
            WrittenAt(LoadedFonts(installed_file, last.calls[i].repo_key),
                      last.calls[i].version)

\* --------------------------------------------------- the shape of a record
\* C26: update_fonts updates an outdated repo whatever the shape of its
\* records: the loop that deletes the old files never fails on a record that
\* has no "filename" field.
C26_EitherShape ==
    (last.op = "update" /\ last.scheduled # <<>>) => last.outcome # "KeyError: 'filename'"

\* ------------------------------------------------ an install of nothing
\* C27: a non-local install_single_repo of a repo key that is installed, at
\* another version or forced, and that moves no font into the destination
\* directory, leaves the records of the key and the files they name as they
\* were.
C27_NothingInstalledNothingLost ==
    [][(/\ last'.op = "install"
        /\ ~last'.local
        /\ last'.moved = {}
        /\ LoadedFonts(installed_file, last'.repo_key) # <<>>
        /\ (last'.force \/ ~InstalledAt(installed_file, last'.repo_key, last'.version)))
       => (/\ LoadedFonts(installed_file', last'.repo_key)
                = LoadedFonts(installed_file, last'.repo_key)
           /\ \A n \in Range(DictKeys(LoadedFonts(installed_file, last'.repo_key))) :
                  dest'[n] = dest[n])]_vars

\* ------------------------------------------------------- the plan of a repair
\* The record-level fixups of a plan that name the record.
RecordFixups(plan, r) ==
    {i \in DOMAIN plan :
        /\ plan[i].kind \in {"del_entry", "del_duplicate", "update_hash"}
        /\ plan[i].repo = r.repo
        /\ plan[i].filename = r.filename}

\* The file of a checked record calls for a reinstall: it is missing, does
\* not parse, has not the variable-ness of the recorded type, or cannot be
\* read.
ClaimUnsound(r, dir, unreadable) == ~ClaimSound(r, dir) \/ r.filename \in unreadable

\* The repos whose reinstall the claims expect.
ClaimReinstalls(data, dir, unreadable) ==
    {r.repo : r \in {o \in RecordSet(data) :
                        ClaimReaches(data, o) /\ ClaimUnsound(o, dir, unreadable)}}

C30_NoEmptyRepo == \A i \in 1..Len(installed_file) : installed_file[i].v # <<>>

====
